---------------------------- MODULE Spec2Model ----------------------------
(***************************************************************************)
(* A model of pyds: the ordered statement containers (Label,               *)
(* GroupStatements, ObjectStatements) of pyds/statements.py, built on a    *)
(* doubly linked list of nodes and a weak-valued identifier map, and the   *)
(* lexer, parser, value model and serializer of pyds/parser.py,            *)
(* pyds/values.py and pyds/statements.py.                                  *)
(*                                                                         *)
(* Bytes and characters are one-character strings ("A", "=", " "); bytes   *)
(* that have no printable form carry a name ("CR", "LF", "xC3").  A byte   *)
(* string or a str is a sequence of them.                                  *)
(***************************************************************************)
EXTENDS Integers, Sequences, FiniteSets, TLC

VARIABLES
  cont,    \* the container under test: [cls, heap, length, dict]
  ref,     \* a reference list: what a Python list would hold after the same calls
  last,    \* the last call made on the container, its outcome, the container before
  rev,     \* a running reversed(container) generator: [pc, cur, out]
  run,     \* a parse of a byte string, followed by bytes() of the label and a
           \* parse of those bytes: [pc, byte_string, parsed, emitted, reparsed]
  obj      \* a value or statement a program builds and calls methods on, with
           \* the last call and its outcome: [pc, op, args, exc, value, before]

vars == <<cont, ref, last, rev, run, obj>>

-----------------------------------------------------------------------------
(* Bounds of the model *)

\* the longest container the actions grow
MaxLen == 3
\* the most values a reversed() generator is asked for
MaxYield == 5

-----------------------------------------------------------------------------
(* Characters *)

LowerSeq == <<"a","b","c","d","e","f","g","h","i","j","k","l","m",
              "n","o","p","q","r","s","t","u","v","w","x","y","z">>
UpperSeq == <<"A","B","C","D","E","F","G","H","I","J","K","L","M",
              "N","O","P","Q","R","S","T","U","V","W","X","Y","Z">>
DigitSeq == <<"0","1","2","3","4","5","6","7","8","9">>

SeqRange(s) == {s[i] : i \in DOMAIN s}

LowerLetters == SeqRange(LowerSeq)
UpperLetters == SeqRange(UpperSeq)
Letters == LowerLetters \cup UpperLetters
Digits == SeqRange(DigitSeq)

IndexIn(s, c) == CHOOSE i \in DOMAIN s : s[i] = c

UpperMap == [c \in LowerLetters |-> UpperSeq[IndexIn(LowerSeq, c)]]
LowerMap == [c \in UpperLetters |-> LowerSeq[IndexIn(UpperSeq, c)]]

\* str.upper() / bytes.lower(), one character at a time
UpperChar(c) == IF c \in LowerLetters THEN UpperMap[c] ELSE c
LowerChar(c) == IF c \in UpperLetters THEN LowerMap[c] ELSE c
upper(s) == [i \in DOMAIN s |-> UpperChar(s[i])]
lower(s) == [i \in DOMAIN s |-> LowerChar(s[i])]

-----------------------------------------------------------------------------
(* Identifiers of statements: Statement._VALID_IDENT_RE and                *)
(* Attribute._VALID_IDENT_RE                                               *)

ReservedWords == {
  <<"e","n","d">>,
  <<"g","r","o","u","p">>,
  <<"b","e","g","i","n","_","g","r","o","u","p">>,
  <<"e","n","d","_","g","r","o","u","p">>,
  <<"o","b","j","e","c","t">>,
  <<"b","e","g","i","n","_","o","b","j","e","c","t">>,
  <<"e","n","d","_","o","b","j","e","c","t">>
}

\* [a-z](?:_?[a-z0-9])* under (?i): the length of the longest match at s[p..]
RECURSIVE IdentTail(_, _)
IdentTail(s, p) ==
  IF p <= Len(s) /\ s[p] \in Letters \cup Digits THEN IdentTail(s, p + 1)
  ELSE IF p + 1 <= Len(s) /\ s[p] = "_" /\ s[p + 1] \in Letters \cup Digits
       THEN IdentTail(s, p + 2)
       ELSE p

\* the position after the identifier that starts at s[p], or 0 when none does
IdentEnd(s, p) ==
  IF p <= Len(s) /\ s[p] \in Letters THEN IdentTail(s, p + 1) ELSE 0

\* (?!(?:end|...)$) looks at the rest of the string to its very end
NotReservedToEnd(s, p) == lower(SubSeq(s, p, Len(s))) \notin ReservedWords

\* Statement._VALID_IDENT_RE.fullmatch(s)
Statement_VALID_IDENT(s) ==
  /\ NotReservedToEnd(s, 1)
  /\ IdentEnd(s, 1) = Len(s) + 1

\* Attribute._VALID_IDENT_RE.fullmatch(s): an optional NAMESPACE: or ^ prefix
Attribute_VALID_IDENT(s) ==
  \/ Statement_VALID_IDENT(s)
  \/ /\ Len(s) >= 1 /\ s[1] = "^"
     /\ NotReservedToEnd(s, 2)
     /\ IdentEnd(s, 2) = Len(s) + 1
  \/ \E q \in 2..Len(s) :
       /\ s[q] = ":"
       /\ NotReservedToEnd(s, 1)
       /\ IdentEnd(s, 1) = q
       /\ NotReservedToEnd(s, q + 1)
       /\ IdentEnd(s, q + 1) = Len(s) + 1

-----------------------------------------------------------------------------
(* Python values shared by the whole model *)

\* an optional field: None is the empty tuple, a present value x is <<x>>
None == <<>>
Some(x) == <<x>>

\* the outcome of a call: the exception raised ("none" when it returned), the
\* value returned, and the container after the call
Result(e, r, c) == [exc |-> e, ret |-> r, c |-> c]

-----------------------------------------------------------------------------
(* Python conversions used by the value model and the parser               *)

AlNum == Letters \cup Digits

\* the code points the model names that are not ASCII: e-acute and its capital
NonAscii == {"U00E9", "U00C9"}
\* [\x00-\x1f\x7f], as far as the model names them
ControlChars == {"NUL", "TAB", "LF", "VT", "FF", "CR", "DEL"}

\* str.upper() of a str that may hold the non-ASCII code point
str_upper(s) == [i \in DOMAIN s |-> IF s[i] = "U00E9" THEN "U00C9" ELSE UpperChar(s[i])]

\* bytes.decode("utf-8"): an ASCII byte is its character, 0xC3 0xA9 is one code
\* point, any other byte >= 0x80 is a UnicodeDecodeError
RECURSIVE decode(_)
decode(b) ==
  IF b = <<>> THEN [exc |-> "none", ret |-> <<>>]
  ELSE IF Len(b) >= 2 /\ b[1] = "xC3" /\ b[2] = "xA9"
  THEN LET r == decode(SubSeq(b, 3, Len(b)))
       IN [exc |-> r.exc, ret |-> <<"U00E9">> \o r.ret]
  ELSE IF b[1] \in {"xC3", "xA9", "xFF"}
  THEN [exc |-> "UnicodeDecodeError", ret |-> <<>>]
  ELSE LET r == decode(Tail(b))
       IN [exc |-> r.exc, ret |-> <<b[1]>> \o r.ret]

\* str.encode("ascii")
encode_ascii(s) ==
  IF \E i \in DOMAIN s : s[i] \in NonAscii
  THEN [exc |-> "UnicodeEncodeError", ret |-> <<>>]
  ELSE [exc |-> "none", ret |-> s]

\* the value of a digit or letter as int(x, base) reads it
DigitValue(c) ==
  IF c \in Digits THEN IndexIn(DigitSeq, c) - 1
  ELSE IndexIn(LowerSeq, LowerChar(c)) + 9

\* int(s, radix) of a str of an optional sign and letters or digits: Python
\* takes 0b, 0o, 0x after the sign as the prefix of base 2, 8, 16
int(s, radix) ==
  LET signed == s # <<>> /\ s[1] \in {"+", "-"}
      body == IF signed THEN Tail(s) ELSE s
      prefixed == /\ Len(body) >= 2 /\ body[1] = "0"
                  /\ \/ radix = 2 /\ body[2] \in {"b", "B"}
                     \/ radix = 8 /\ body[2] \in {"o", "O"}
                     \/ radix = 16 /\ body[2] \in {"x", "X"}
      digits == IF prefixed THEN SubSeq(body, 3, Len(body)) ELSE body
      RECURSIVE Value(_, _)
      Value(i, acc) ==
        IF i > Len(digits) THEN acc
        ELSE Value(i + 1, acc * radix + DigitValue(digits[i]))
  IN IF digits = <<>> \/ \E i \in DOMAIN digits :
          digits[i] \notin AlNum \/ DigitValue(digits[i]) >= radix
     THEN [exc |-> "ValueError", ret |-> 0]
     ELSE [exc |-> "none",
           ret |-> IF signed /\ s[1] = "-" THEN 0 - Value(1, 0) ELSE Value(1, 0)]

\* str(n) of an int, and the format specs the serializer uses on ints
RECURSIVE NatStr(_)
NatStr(n) == IF n < 10 THEN <<DigitSeq[n + 1]>>
             ELSE NatStr(n \div 10) \o <<DigitSeq[(n % 10) + 1]>>
IntStr(n) == IF n < 0 THEN <<"-">> \o NatStr(0 - n) ELSE NatStr(n)
\* "{:02d}".format(n)
Format02d(n) == IF 0 <= n /\ n < 10 THEN <<"0">> \o NatStr(n) ELSE IntStr(n)
\* "{:+03d}".format(n)
FormatPlus03d(n) ==
  LET a == IF n < 0 THEN 0 - n ELSE n
  IN <<IF n < 0 THEN "-" ELSE "+">> \o (IF a < 10 THEN <<"0">> ELSE <<>>) \o NatStr(a)

\* A float is kept as a decimal: 0.d1d2... * 10^x with d1 # 0 and the last
\* digit # 0 (no digits for zero), or an infinity.  float(b) of the text of a
\* real or of seconds; exact for the short literals of the model, and above
\* the largest double (1.797...e308) the result is inf.
float(b) ==
  LET neg == b # <<>> /\ b[1] = "-"
      u == IF b # <<>> /\ b[1] \in {"+", "-"} THEN Tail(b) ELSE b
      ePos == IF \E i \in DOMAIN u : u[i] \in {"e", "E"}
              THEN CHOOSE i \in DOMAIN u : u[i] \in {"e", "E"} ELSE Len(u) + 1
      mant == SubSeq(u, 1, ePos - 1)
      exp == IF ePos > Len(u) THEN 0 ELSE int(SubSeq(u, ePos + 1, Len(u)), 10).ret
      dot == IF \E i \in DOMAIN mant : mant[i] = "."
             THEN CHOOSE i \in DOMAIN mant : mant[i] = "." ELSE Len(mant) + 1
      all == SubSeq(mant, 1, dot - 1) \o SubSeq(mant, dot + 1, Len(mant))
      nz == {i \in DOMAIN all : all[i] # "0"}
      first == CHOOSE i \in nz : \A j \in nz : i <= j
      final == CHOOSE i \in nz : \A j \in nz : j <= i
      x == (dot - first) + exp
      D == SubSeq(all, first, final)
      lead3 == int(SubSeq(D \o <<"0", "0">>, 1, 3), 10).ret
  IN IF nz = {} THEN [neg |-> neg, inf |-> FALSE, D |-> <<>>, x |-> 0]
     ELSE IF x - 1 > 308 \/ (x - 1 = 308 /\ lead3 >= 180)
     THEN [neg |-> neg, inf |-> TRUE, D |-> <<>>, x |-> 0]
     ELSE [neg |-> neg, inf |-> FALSE, D |-> D, x |-> x]

Zeros(n) == [i \in 1..n |-> "0"]

\* repr(f), which str.format applies to a float: fixed notation when the
\* decimal point lies in -4 < x <= 16, exponent notation otherwise
float_repr(f) ==
  LET n == Len(f.D)
      sign == IF f.neg THEN <<"-">> ELSE <<>>
      e == f.x - 1
  IN sign \o
     (IF f.inf THEN <<"i", "n", "f">>
      ELSE IF n = 0 THEN <<"0", ".", "0">>
      ELSE IF f.x > 16 \/ f.x <= 0 - 4
      THEN <<f.D[1]>> \o (IF n > 1 THEN <<".">> \o Tail(f.D) ELSE <<>>)
           \o <<"e", IF e < 0 THEN "-" ELSE "+">>
           \o Format02d(IF e < 0 THEN 0 - e ELSE e)
      ELSE IF f.x <= 0 THEN <<"0", ".">> \o Zeros(0 - f.x) \o f.D
      ELSE IF f.x >= n THEN f.D \o Zeros(f.x - n) \o <<".", "0">>
      ELSE SubSeq(f.D, 1, f.x) \o <<".">> \o SubSeq(f.D, f.x + 1, n))

\* the integer part of a float below 1000, and whether a fraction follows it
float_floor(f) ==
  IF f.x <= 0 THEN 0
  ELSE int(SubSeq(f.D \o Zeros(f.x), 1, f.x), 10).ret
float_has_fraction(f) == Len(f.D) > f.x /\ f.D # <<>>

\* ":{:015.12f}".format(second).rstrip("0").rstrip(".") without its colon, for
\* 0 <= second < 100: two integer digits, then the fraction's digits (twelve
\* at most are printed; the literals of the model carry fewer)
FormatSecond(f) ==
  LET frac == IF f.x >= Len(f.D) THEN <<>>
              ELSE IF f.x <= 0 THEN Zeros(0 - f.x) \o f.D
              ELSE SubSeq(f.D, f.x + 1, Len(f.D))
      cut == SubSeq(frac, 1, IF Len(frac) > 12 THEN 12 ELSE Len(frac))
      nzc == {i \in DOMAIN cut : cut[i] # "0"}
      kept == IF nzc = {} THEN <<>>
              ELSE SubSeq(cut, 1, CHOOSE i \in nzc : \A j \in nzc : j <= i)
  IN Format02d(float_floor(f)) \o (IF kept = <<>> THEN <<>> ELSE <<".">> \o kept)

-----------------------------------------------------------------------------
(* Values: pyds/values.py.  A constructor yields [exc, ret]: the exception *)
(* it raises ("none" when it returns) and the value built                  *)

NoValue == [cls |-> "None"]
Built(v) == [exc |-> "none", ret |-> v]
Raised(e) == [exc |-> e, ret |-> NoValue]

\* isinstance(value, values.Value), isinstance(value, values.Scalar)
ValueClasses == {"Integer", "BasedInteger", "Real", "Text", "Symbol",
                 "Identifier", "Time", "Date", "DateTime", "Set",
                 "Sequence1D", "Sequence2D"}
ScalarClasses == {"Integer", "BasedInteger", "Real", "Text", "Symbol",
                  "Identifier", "Time", "Date", "DateTime"}
IsValue(v) == v.cls \in ValueClasses

\* Units._VALID_RE.fullmatch(expression): NAME(**[+-]?DIGITS)? joined by * or /
\* where no NAME may be a reserved word that runs to the end of the string
Units_VALID(s) ==
  LET RECURSIVE Factor(_)
      \* the position after the factor at s[p], 0 when there is none
      Factor(p) ==
        LET n == IdentEnd(s, p)
            g == IF n + 2 <= Len(s) /\ s[n + 2] \in {"+", "-"} THEN n + 3 ELSE n + 2
            RECURSIVE DigitsEnd(_)
            DigitsEnd(q) == IF q <= Len(s) /\ s[q] \in Digits
                            THEN DigitsEnd(q + 1) ELSE q
            power == n + 1 <= Len(s) /\ s[n] = "*" /\ s[n + 1] = "*"
                     /\ DigitsEnd(g) > g
            after == IF power THEN DigitsEnd(g) ELSE n
        IN IF n = 0 \/ ~NotReservedToEnd(s, p) THEN 0
           ELSE IF after <= Len(s) /\ s[after] \in {"*", "/"}
                THEN Factor(after + 1)
                ELSE after
  IN Factor(1) = Len(s) + 1

\* Units(expression, validate)
Units(expression, validate) ==
  IF validate /\ ~Units_VALID(expression) THEN Raised("ValueError")
  ELSE Built([cls |-> "Units", expression |-> upper(expression)])

\* Numeric.__init__(value, units): units is None or a Units
Numeric(cls, value, units) ==
  IF units # None /\ units.cls # "Units" THEN Raised("TypeError")
  ELSE Built([cls |-> cls, value |-> value, units |-> units])

\* Integer(value, units), value already an int: int(value) of the bytes of an
\* integer token is int(value, 10) at the call
Integer(value, units) == Numeric("Integer", value, units)

\* BasedInteger, were it to take the radixes 1..17
BasedInteger_radix_1_to_17(radix, digits, units) ==
  IF radix < 1 \/ radix > 17 THEN Raised("ValueError")
  ELSE IF int(digits, radix).exc # "none" THEN Raised("ValueError")
  ELSE LET n == Numeric("BasedInteger", int(digits, radix).ret, units)
       IN IF n.exc # "none" THEN n
          ELSE Built([cls |-> "BasedInteger", value |-> n.ret.value,
                      units |-> units, radix |-> radix, digits |-> upper(digits)])

\* BasedInteger(radix, digits, units), radix already an int
BasedInteger(radix, digits, units) ==
  IF radix < 2 \/ radix > 16 THEN Raised("ValueError")
  ELSE IF int(digits, radix).exc # "none" THEN Raised("ValueError")
  ELSE LET n == Numeric("BasedInteger", int(digits, radix).ret, units)
       IN IF n.exc # "none" THEN n
          ELSE Built([cls |-> "BasedInteger", value |-> n.ret.value,
                      units |-> units, radix |-> radix, digits |-> upper(digits)])

\* Real(value, units), value already a float
Real(value, units) == Numeric("Real", value, units)

\* Text(value, validate): _VALID_RE is [\x00-\x21\x23-\x7f]*
Text(value, validate) ==
  IF validate /\ \E i \in DOMAIN value : value[i] \in NonAscii \cup {"\""}
  THEN Raised("ValueError")
  ELSE Built([cls |-> "Text", value |-> value])

\* Symbol(value, validate): _VALID_RE is [\x20-\x26\x28-\x7e]+
Symbol(value, validate) ==
  IF validate /\ (value = <<>> \/ \E i \in DOMAIN value :
                    value[i] \in NonAscii \cup ControlChars \cup {"'"})
  THEN Raised("ValueError")
  ELSE Built([cls |-> "Symbol", value |-> str_upper(value)])

\* Identifier(value, validate): _VALID_RE is that of a statement identifier
Identifier(value, validate) ==
  IF validate /\ ~Statement_VALID_IDENT(value) THEN Raised("ValueError")
  ELSE Built([cls |-> "Identifier", value |-> str_upper(value)])

\* Time(hour, minute, second, utc, zone_hour, zone_minute): hour and minute
\* ints, second None or a float, the zone fields None or ints
Time(hour, minute, second, utc, zone_hour, zone_minute) ==
  IF hour < 0 \/ hour > 23 THEN Raised("ValueError")
  ELSE IF minute < 0 \/ minute > 59 THEN Raised("ValueError")
  ELSE IF second # None /\
          ((second[1].neg /\ second[1].D # <<>>) \/
           second[1].inf \/ float_floor(second[1]) > 59 \/
           (float_floor(second[1]) = 59 /\ float_has_fraction(second[1])))
  THEN Raised("ValueError")
  ELSE IF ~utc /\ zone_hour # None /\ (zone_hour[1] < 0 - 12 \/ zone_hour[1] > 12)
  THEN Raised("ValueError")
  ELSE IF ~utc /\ zone_hour # None /\ zone_minute # None /\
          (zone_minute[1] < 0 \/ zone_minute[1] > 59)
  THEN Raised("ValueError")
  ELSE Built([cls |-> "Time", hour |-> hour, minute |-> minute,
              second |-> second, utc |-> utc,
              zone_hour |-> IF utc THEN None ELSE zone_hour,
              zone_minute |-> IF utc THEN None ELSE zone_minute])

\* Date.MONTH_DAYS
MONTH_DAYS == <<31, 28, 31, 30, 31, 30, 31, 31, 30, 31, 30, 31>>

\* leap_year = year % 4 and (year % 100 != 0 or year % 400 == 0), as the int
\* that is added to a day count: `and` yields its left operand when that is 0
Date_leap_year(year) ==
  IF year % 4 = 0 THEN 0
  ELSE IF year % 100 # 0 \/ year % 400 = 0 THEN 1 ELSE 0

\* Date(year, month, day): year and day ints, month None or an int
Date(year, month, day) ==
  LET leap_year == Date_leap_year(year)
      max_day == IF month = None THEN 365 + leap_year
                 ELSE MONTH_DAYS[month[1]] +
                      (IF month[1] = 3 THEN leap_year ELSE 0)
  IN IF month # None /\ (month[1] < 1 \/ month[1] > 12) THEN Raised("ValueError")
     ELSE IF day < 1 \/ day > max_day THEN Raised("ValueError")
     ELSE Built([cls |-> "Date", year |-> year, month |-> month, day |-> day])

\* DateTime(...): a Date, then a Time
DateTime(year, month, day, hour, minute, second, utc, zone_hour, zone_minute) ==
  LET date == Date(year, month, day)
      time == Time(hour, minute, second, utc, zone_hour, zone_minute)
  IN IF date.exc # "none" THEN date
     ELSE IF time.exc # "none" THEN time
     ELSE Built([cls |-> "DateTime", date |-> date.ret, time |-> time.ret])

\* Set(*values): add() takes a Symbol or an Integer; the members are a set
Set(values) ==
  IF \E i \in DOMAIN values : values[i].cls \notin {"Symbol", "Integer"}
  THEN Raised("TypeError")
  ELSE Built([cls |-> "Set", members |-> {values[i] : i \in DOMAIN values}])

\* Sequence1D(*values): append() is insert(len(self), value), which takes a
\* Scalar
Sequence1D(values) ==
  IF \E i \in DOMAIN values : values[i].cls \notin ScalarClasses
  THEN Raised("TypeError")
  ELSE Built([cls |-> "Sequence1D", list |-> values])

\* Sequence2D(*values): insert() takes a Sequence1D, of which Sequence2D is a
\* subclass
Sequence2D(values) ==
  IF \E i \in DOMAIN values : values[i].cls \notin {"Sequence1D", "Sequence2D"}
  THEN Raised("TypeError")
  ELSE Built([cls |-> "Sequence2D", list |-> values])

-----------------------------------------------------------------------------
(* Comparison and hashing of Units and of the scalar values: __eq__,       *)
(* __ne__ and __hash__.  A comparison yields [exc, ret]: the exception it  *)
(* raises ("none" when it returns) and the truth value returned            *)

\* Units.__eq__(other), other a Units
Units_eq(self, other) ==
  [exc |-> "none", ret |-> self.expression = other.expression]

\* Units.__ne__(other), other a Units: it reads self.expresion, an attribute
\* that no Units has
Units_ne(self, other) == [exc |-> "AttributeError", ret |-> FALSE]

\* a == b of two values of one class, by the __eq__ of the class: the fields
\* are compared from left to right under `and`, units by == of None or Units
\* (None equals None only), floats by their value
Value_eq(a, b) ==
  LET True == [exc |-> "none", ret |-> TRUE]
      False == [exc |-> "none", ret |-> FALSE]
      Truth(t) == IF t THEN True ELSE False
      units_eq(x, y) ==
        IF x = None \/ y = None THEN Truth(x = y) ELSE Units_eq(x, y)
      zero(f) == ~f.inf /\ f.D = <<>>
      float_eq(x, y) == x = y \/ (zero(x) /\ zero(y))
      opt_float_eq(x, y) ==
        IF x = None \/ y = None THEN x = y ELSE float_eq(x[1], y[1])
      Time_eq(s, o) ==
        Truth(/\ s.hour = o.hour /\ s.minute = o.minute
              /\ opt_float_eq(s.second, o.second) /\ s.utc = o.utc
              /\ s.zone_hour = o.zone_hour /\ s.zone_minute = o.zone_minute)
      Date_eq(s, o) ==
        Truth(s.year = o.year /\ s.month = o.month /\ s.day = o.day)
  IN CASE a.cls = "Units" -> Units_eq(a, b)
       [] a.cls = "Integer" ->
            IF a.value # b.value THEN False ELSE units_eq(a.units, b.units)
       [] a.cls = "Real" ->
            IF ~float_eq(a.value, b.value) THEN False
            ELSE units_eq(a.units, b.units)
       [] a.cls = "BasedInteger" ->
            IF a.radix # b.radix \/ a.digits # b.digits THEN False
            ELSE units_eq(a.units, b.units)
       [] a.cls \in {"Text", "Symbol", "Identifier"} -> Truth(a.value = b.value)
       [] a.cls = "Time" -> Time_eq(a, b)
       [] a.cls = "Date" -> Date_eq(a, b)
       [] a.cls = "DateTime" ->
            IF ~Date_eq(a.date, b.date).ret THEN False
            ELSE Time_eq(a.time, b.time)

\* a != b of two values of one class, by the __ne__ of the class: the fields
\* are compared from left to right under `or`, which stops at the first that
\* differs; units by != of None or Units
Value_ne(a, b) ==
  LET True == [exc |-> "none", ret |-> TRUE]
      False == [exc |-> "none", ret |-> FALSE]
      Truth(t) == IF t THEN True ELSE False
      units_ne(x, y) ==
        IF x = None \/ y = None THEN Truth(x # y) ELSE Units_ne(x, y)
      zero(f) == ~f.inf /\ f.D = <<>>
      float_ne(x, y) == ~(x = y \/ (zero(x) /\ zero(y)))
      opt_float_ne(x, y) ==
        IF x = None \/ y = None THEN x # y ELSE float_ne(x[1], y[1])
      Time_ne(s, o) ==
        Truth(\/ s.hour # o.hour \/ s.minute # o.minute
              \/ opt_float_ne(s.second, o.second) \/ s.utc # o.utc
              \/ s.zone_hour # o.zone_hour \/ s.zone_minute # o.zone_minute)
      Date_ne(s, o) ==
        Truth(s.year # o.year \/ s.month # o.month \/ s.day # o.day)
  IN CASE a.cls = "Units" -> Units_ne(a, b)
       [] a.cls = "Integer" ->
            IF a.value # b.value THEN True ELSE units_ne(a.units, b.units)
       [] a.cls = "Real" ->
            IF float_ne(a.value, b.value) THEN True
            ELSE units_ne(a.units, b.units)
       [] a.cls = "BasedInteger" ->
            IF a.radix # b.radix \/ a.digits # b.digits THEN True
            ELSE units_ne(a.units, b.units)
       [] a.cls \in {"Text", "Symbol", "Identifier"} -> Truth(a.value # b.value)
       [] a.cls = "Time" -> Time_ne(a, b)
       [] a.cls = "Date" -> Date_ne(a, b)
       [] a.cls = "DateTime" ->
            IF Date_ne(a.date, b.date).ret THEN True
            ELSE Time_ne(a.time, b.time)

\* hash(a): the hash of the field, or of the tuple of the fields, that
\* __hash__ names; two hashes are equal when what is hashed is equal, a zero
\* float whatever its sign
Value_hash(a) ==
  LET units_hash(u) == IF u = None THEN None ELSE <<u.expression>>
      float_hash(f) == IF ~f.inf /\ f.D = <<>> THEN [f EXCEPT !.neg = FALSE] ELSE f
      opt_float_hash(x) == IF x = None THEN None ELSE <<float_hash(x[1])>>
      Time_hash(t) == <<t.hour, t.minute, opt_float_hash(t.second), t.utc,
                        t.zone_hour, t.zone_minute>>
      Date_hash(d) == <<d.year, d.month, d.day>>
  IN CASE a.cls = "Units" -> a.expression
       [] a.cls = "Integer" -> <<a.value, units_hash(a.units)>>
       [] a.cls = "Real" -> <<float_hash(a.value), units_hash(a.units)>>
       [] a.cls = "BasedInteger" -> <<a.radix, a.digits, units_hash(a.units)>>
       [] a.cls \in {"Text", "Symbol", "Identifier"} -> a.value
       [] a.cls = "Time" -> Time_hash(a)
       [] a.cls = "Date" -> Date_hash(a)
       [] a.cls = "DateTime" -> <<Date_hash(a.date), Time_hash(a.time)>>

-----------------------------------------------------------------------------
(* Statements: Statement.__init__, Attribute, Group, Object                *)

\* what a node of an empty list holds: _DoubleLinkNode(value = None)
NoStatement == [kind |-> "None", identifier |-> <<>>, value |-> [cls |-> "None"]]

\* Statement.__init__: the identifier is checked, then stored upper-cased
Statement_init(kind, valid, identifier, value, validate_identifier) ==
  IF validate_identifier /\ ~valid
  THEN [exc |-> "ValueError", stmt |-> NoStatement]
  ELSE [exc |-> "none",
        stmt |-> [kind |-> kind, identifier |-> upper(identifier), value |-> value]]

\* Attribute(identifier, value, validate_identifier)
Attribute(identifier, value, validate_identifier) ==
  IF ~IsValue(value)
  THEN [exc |-> "TypeError", stmt |-> NoStatement]
  ELSE Statement_init("Attribute", Attribute_VALID_IDENT(identifier),
                      identifier, value, validate_identifier)

\* Group(identifier, group_statements, validate_identifier)
Group(identifier, value, validate_identifier) ==
  IF value.cls # "GroupStatements"
  THEN [exc |-> "TypeError", stmt |-> NoStatement]
  ELSE Statement_init("Group", Statement_VALID_IDENT(identifier),
                      identifier, value, validate_identifier)

\* Object(identifier, object_statements, validate_identifier)
Object(identifier, value, validate_identifier) ==
  IF value.cls # "ObjectStatements"
  THEN [exc |-> "TypeError", stmt |-> NoStatement]
  ELSE Statement_init("Object", Statement_VALID_IDENT(identifier),
                      identifier, value, validate_identifier)

-----------------------------------------------------------------------------
(* _DoubleLinkedNodes: the objects of the list.  RootHard is the root node,*)
(* Proxy the weakref.proxy of it that the list calls root; every other     *)
(* node has a positive id.  A node's next is a strong reference to a node  *)
(* or to Proxy; its prev is a weakref.ref, modelled by the id it refers to.*)

RootHard == 0
Proxy == -1

\* attribute access through the proxy reaches the root node itself
Deref(x) == IF x = Proxy THEN RootHard ELSE x

\* _DoubleLinkedNodes.__init__
DoubleLinkedNodes_init ==
  [n \in {RootHard} |-> [prev |-> RootHard, next |-> Proxy, value |-> NoStatement]]

\* Statements.__init__ with no statements
NewStatements(flavor) ==
  [cls |-> flavor, heap |-> DoubleLinkedNodes_init, length |-> 0,
   dict |-> [k \in {} |-> 0]]

\* node.next, node.prev() for a reference x (a node id, RootHard or Proxy)
NextOf(heap, x) == heap[Deref(x)].next
PrevOf(heap, x) == heap[Deref(x)].prev

RECURSIVE WalkPrev(_, _, _)
WalkPrev(heap, x, n) == IF n <= 0 THEN x ELSE WalkPrev(heap, PrevOf(heap, x), n - 1)

RECURSIVE WalkNext(_, _, _)
WalkNext(heap, x, n) == IF n <= 0 THEN x ELSE WalkNext(heap, NextOf(heap, x), n - 1)

\* _DoubleLinkedNodes.get_node
get_node(c, index) ==
  IF 2 * index > c.length
  THEN WalkPrev(c.heap, Proxy, c.length - index)
  ELSE WalkNext(c.heap, NextOf(c.heap, Proxy), index)

\* a fresh _DoubleLinkNode: the least id no live node has
NewNodeId(heap) == CHOOSE n \in 1..(Cardinality(DOMAIN heap) + 1) :
                     /\ n \notin DOMAIN heap
                     /\ \A m \in 1..(n - 1) : m \in DOMAIN heap

\* _DoubleLinkedNodes.insert_node, for a new node of id n holding value
insert_node(c, n, value, index) ==
  LET node_after == get_node(c, index)
      node_before == PrevOf(c.heap, node_after)
      h1 == [m \in DOMAIN c.heap \cup {n} |->
               IF m = n
               THEN [prev |-> node_before, next |-> node_after, value |-> value]
               ELSE c.heap[m]]
      h2 == [h1 EXCEPT ![node_before].next = n]
      h3 == [h2 EXCEPT ![Deref(node_after)].prev = n]
  IN [c EXCEPT !.heap = h3, !.length = c.length + 1]

\* _DoubleLinkedNodes.remove_node
remove_node(c, node) ==
  LET node_before == c.heap[node].prev
      node_after == c.heap[node].next
      h1 == [c.heap EXCEPT ![node_before].next = node_after]
      h2 == [h1 EXCEPT ![Deref(node_after)].prev = node_before]
  IN [c EXCEPT !.heap = h2, !.length = c.length - 1]

\* the nodes a chain of strong references (root_hard.next, node.next, ...) keeps
\* alive, starting at reference x
RECURSIVE StrongFrom(_, _, _)
StrongFrom(heap, x, fuel) ==
  IF x = Proxy \/ x = RootHard \/ fuel = 0 \/ x \notin DOMAIN heap THEN {}
  ELSE {x} \cup StrongFrom(heap, heap[x].next, fuel - 1)

Restrict(f, S) == [k \in S |-> f[k]]

\* Collect, were the identifier map an ordinary dict: nothing is dropped
Collect_keeps_all(c) == c

\* Reference counting: when a call returns, a node no strong reference reaches
\* is freed, and the WeakValueDictionary drops the key that maps to it.
Collect(c) ==
  LET live == {RootHard} \cup
              StrongFrom(c.heap, c.heap[RootHard].next, Cardinality(DOMAIN c.heap))
  IN [c EXCEPT !.heap = Restrict(c.heap, live),
               !.dict = Restrict(c.dict, {k \in DOMAIN c.dict : c.dict[k] \in live})]

\* the ids of the nodes in list order, from reference x on
RECURSIVE ChainFrom(_, _, _)
ChainFrom(heap, x, fuel) ==
  IF x = Proxy \/ x = RootHard \/ fuel = 0 \/ x \notin DOMAIN heap THEN <<>>
  ELSE <<x>> \o ChainFrom(heap, heap[x].next, fuel - 1)

\* the elements of a set of ids, in increasing order
RECURSIVE Sorted(_)
Sorted(S) ==
  IF S = {} THEN <<>>
  ELSE LET m == CHOOSE x \in S : \A y \in S : x <= y
       IN <<m>> \o Sorted(S \ {m})

\* A node's id stands for its address, which tells nodes apart and means
\* nothing else.  Between two calls the model names the nodes of the list
\* 1, 2, ... in list order (and after them any node that is off the list), so
\* that one list is one state.
Renumber(c) ==
  LET chain == ChainFrom(c.heap, c.heap[RootHard].next, Cardinality(DOMAIN c.heap))
      rest == Sorted(DOMAIN c.heap \ ({RootHard} \cup SeqRange(chain)))
      order == chain \o rest
      new(x) == IF x = Proxy \/ x = RootHard \/ x \notin SeqRange(order) THEN x
                ELSE IndexIn(order, x)
  IN [c EXCEPT
        !.heap = [n \in 0..Len(order) |->
                    LET old == IF n = RootHard THEN c.heap[RootHard]
                               ELSE c.heap[order[n]]
                    IN [prev |-> new(old.prev), next |-> new(old.next),
                        value |-> old.value]],
        !.dict = [k \in DOMAIN c.dict |-> new(c.dict[k])]]

\* self._dict[key]: the key is there while its node is alive
DictHas(c, key) == key \in DOMAIN c.dict /\ c.dict[key] \in DOMAIN c.heap

-----------------------------------------------------------------------------
(* Statements: the operations of Label, GroupStatements, ObjectStatements  *)

NoRet == [cls |-> "None"]

\* Statements.__len__
len(c) == c.length

\* Statements.__iter__: the values of the nodes from root.next on, until the
\* node reached is root (the proxy)
RECURSIVE IterFrom(_, _, _)
IterFrom(heap, x, fuel) ==
  IF x = Proxy \/ fuel = 0 THEN <<>>
  ELSE <<heap[Deref(x)].value>> \o IterFrom(heap, heap[Deref(x)].next, fuel - 1)

iter(c) == IterFrom(c.heap, NextOf(c.heap, Proxy), Cardinality(DOMAIN c.heap) + 1)

\* Statements.__getitem__: self._dict[key.upper()].value.value
getitem(c, key) ==
  IF DictHas(c, upper(key))
  THEN Result("none", c.heap[c.dict[upper(key)]].value.value, c)
  ELSE Result("KeyError", NoRet, c)

\* Statements.__contains__: whether self[key] raises KeyError
contains(c, key) == getitem(c, key).exc = "none"

\* _insert, were a negative index always taken for the front
p_insert_negative_to_front(c, index, statement) ==
  LET i == IF index < 0 THEN 0
           ELSE (IF len(c) < index THEN len(c) ELSE index)
      n == NewNodeId(c.heap)
      c1 == insert_node(c, n, statement, i)
  IN [c1 EXCEPT !.dict = [k \in DOMAIN c.dict \cup {statement.identifier} |->
                             IF k = statement.identifier THEN n ELSE c.dict[k]]]

\* Statements._insert
p_insert(c, index, statement) ==
  LET i == IF index < 0 THEN (IF len(c) + index > 0 THEN len(c) + index ELSE 0)
           ELSE (IF len(c) < index THEN len(c) ELSE index)
      n == NewNodeId(c.heap)
      c1 == insert_node(c, n, statement, i)
  IN [c1 EXCEPT !.dict = [k \in DOMAIN c.dict \cup {statement.identifier} |->
                             IF k = statement.identifier THEN n ELSE c.dict[k]]]

\* Statements._append
p_append(c, statement) == p_insert(c, len(c), statement)

\* insert, were the identifier not looked up first
Statements_insert_unchecked(c, index, statement) ==
  IF statement.kind \notin {"Attribute", "Group", "Object"}
  THEN Result("TypeError", NoRet, c)
  ELSE Result("none", NoRet, p_insert(c, index, statement))

\* Statements.insert
Statements_insert(c, index, statement) ==
  IF statement.kind \notin {"Attribute", "Group", "Object"}
  THEN Result("TypeError", NoRet, c)
  ELSE IF contains(c, statement.identifier)
       THEN Result("ValueError", NoRet, c)
       ELSE Result("none", NoRet, p_insert(c, index, statement))

\* GroupStatements.insert, were it to take what Statements.insert takes
GroupStatements_insert_any_kind(c, index, statement) ==
  Statements_insert(c, index, statement)

\* GroupStatements.insert
GroupStatements_insert(c, index, statement) ==
  IF statement.kind # "Attribute"
  THEN Result("TypeError", NoRet, c)
  ELSE IF contains(c, statement.identifier)
       THEN Result("ValueError", NoRet, c)
       ELSE Result("none", NoRet, p_insert(c, index, statement))

\* container.insert(index, statement), by the class of the container
insert(c, index, statement) ==
  IF c.cls = "GroupStatements"
  THEN GroupStatements_insert(c, index, statement)
  ELSE Statements_insert(c, index, statement)

\* append, were it to insert at the front
append_at_front(c, statement) == insert(c, 0, statement)

\* Statements.append: self.insert(len(self), statement)
append(c, statement) == insert(c, len(c), statement)

\* get, were its range check index > len(self)
get_off_by_one(c, index) ==
  LET i == IF index < 0 THEN len(c) + index ELSE index
  IN IF i > len(c) \/ i < 0
     THEN Result("IndexError", NoRet, c)
     ELSE Result("none", c.heap[Deref(get_node(c, i))].value, c)

\* Statements.get
get(c, index) ==
  LET i == IF index < 0 THEN len(c) + index ELSE index
  IN IF i >= len(c) \/ i < 0
     THEN Result("IndexError", NoRet, c)
     ELSE Result("none", c.heap[Deref(get_node(c, i))].value, c)

\* Statements.pop
pop(c, index) ==
  LET i == IF index < 0 THEN len(c) + index ELSE index
  IN IF i >= len(c) \/ i < 0
     THEN Result("IndexError", NoRet, c)
     ELSE LET node == get_node(c, i)
          IN Result("none", c.heap[node].value, Collect(remove_node(c, node)))

\* the statement Statements.__setitem__ builds: Attribute, else Group, else Object
MakeStatement(key, value) ==
  LET a == Attribute(key, value, TRUE)
      g == Group(key, value, TRUE)
      o == Object(key, value, TRUE)
  IN IF a.exc # "TypeError" THEN a
     ELSE IF g.exc # "TypeError" THEN g
          ELSE o

\* the end of both __setitem__ methods: replace the node's value or append
StoreStatement(c, stmt) ==
  IF DictHas(c, stmt.identifier)
  THEN [c EXCEPT !.heap[c.dict[stmt.identifier]].value = stmt]
  ELSE p_append(c, stmt)

\* Statements.__setitem__
Statements_setitem(c, key, value) ==
  LET made == MakeStatement(key, value)
  IN IF made.exc # "none"
     THEN Result(made.exc, NoRet, c)
     ELSE Result("none", NoRet, StoreStatement(c, made.stmt))

\* GroupStatements.__setitem__(key, value): the method is declared without
\* self, so container[key] = value, which passes three arguments, raises
\* TypeError before the body runs
GroupStatements_setitem(c, key, value) == Result("TypeError", NoRet, c)

\* container[key] = value, by the class of the container
setitem(c, key, value) ==
  IF c.cls = "GroupStatements"
  THEN GroupStatements_setitem(c, key, value)
  ELSE Statements_setitem(c, key, value)

\* Statements.__delitem__
delitem(c, key) ==
  IF DictHas(c, upper(key))
  THEN Result("none", NoRet, Collect(remove_node(c, c.dict[upper(key)])))
  ELSE Result("KeyError", NoRet, c)

-----------------------------------------------------------------------------
(* The serializer: __str__ of the values, _format of the statements,       *)
(* Statements.__str__, Label.__str__, Statements.__bytes__.  A Set hands   *)
(* out its members in the order of a Python set, which the program does    *)
(* not fix, so a serialization is a set of outcomes [exc, ret].            *)

Lit(s) == {[exc |-> "none", ret |-> s]}
Cat(A, B) ==
  {IF a.exc # "none" THEN a
   ELSE IF b.exc # "none" THEN b
   ELSE [exc |-> "none", ret |-> a.ret \o b.ret] : a \in A, b \in B}

\* sep.join(parts)
RECURSIVE Join(_, _)
Join(parts, sep) ==
  IF parts = <<>> THEN Lit(<<>>)
  ELSE IF Len(parts) = 1 THEN parts[1]
  ELSE Cat(Cat(parts[1], Lit(sep)), Join(Tail(parts), sep))

\* the orders in which iter(set) may hand out the members
Orders(S) ==
  {o \in [1..Cardinality(S) -> S] :
     \A i, j \in 1..Cardinality(S) : i # j => o[i] # o[j]}

\* Units.__str__
Units_str(u) == <<"<">> \o u.expression \o <<">">>

\* Numeric.__str__ after its value: " {}".format(self.units) if self.units
Numeric_units_str(v) ==
  IF v.units # None THEN <<" ">> \o Units_str(v.units) ELSE <<>>

\* Time.__str__
Time_str(t) ==
  Format02d(t.hour) \o <<":">> \o Format02d(t.minute)
  \o (IF t.second # None THEN <<":">> \o FormatSecond(t.second[1]) ELSE <<>>)
  \o (IF t.utc THEN <<"Z">>
      ELSE IF t.zone_hour # None
      THEN FormatPlus03d(t.zone_hour[1])
           \o (IF t.zone_minute # None
               THEN <<":">> \o Format02d(t.zone_minute[1]) ELSE <<>>)
      ELSE <<>>)

\* Date.__str__
Date_str(d) ==
  IntStr(d.year) \o <<"-">>
  \o (IF d.month = None THEN Format02d(d.day)
      ELSE Format02d(d.month[1]) \o <<"-">> \o Format02d(d.day))

\* str(value) of every class of values.py
RECURSIVE Value_str(_)
Value_str(v) ==
  CASE v.cls = "Integer" -> Lit(IntStr(v.value) \o Numeric_units_str(v))
    [] v.cls = "Real" -> Lit(float_repr(v.value) \o Numeric_units_str(v))
    [] v.cls = "BasedInteger" ->
         Lit(IntStr(v.radix) \o <<"#">> \o v.digits \o <<"#">>
             \o Numeric_units_str(v))
    [] v.cls = "Text" -> Lit(<<"\"">> \o v.value \o <<"\"">>)
    [] v.cls = "Symbol" -> Lit(<<"'">> \o v.value \o <<"'">>)
    [] v.cls = "Identifier" -> Lit(v.value)
    [] v.cls = "Time" -> Lit(Time_str(v))
    [] v.cls = "Date" -> Lit(Date_str(v))
    [] v.cls = "DateTime" -> Lit(Date_str(v.date) \o <<"T">> \o Time_str(v.time))
    [] v.cls = "Set" ->
         UNION {Cat(Cat(Lit(<<"{">>),
                        Join([i \in DOMAIN o |-> Value_str(o[i])], <<",", " ">>)),
                    Lit(<<"}">>)) : o \in Orders(v.members)}
    [] v.cls \in {"Sequence1D", "Sequence2D"} ->
         IF Len(v.list) < 1 THEN {[exc |-> "RuntimeError", ret |-> <<>>]}
         ELSE Cat(Cat(Lit(<<"(">>),
                      Join([i \in DOMAIN v.list |-> Value_str(v.list[i])],
                           <<",", " ">>)),
                  Lit(<<")">>))

\* format(s, width) of a str under a width that is str(n): padded on the right
format(s, width) ==
  IF Len(s) >= width THEN s ELSE s \o [i \in 1..(width - Len(s)) |-> " "]

\* Statements._max_identifier_width, and its override in GroupStatements
max_identifier_width(c) ==
  LET lens == {Len(iter(c)[i].identifier) : i \in 1..len(c)}
      longest == IF lens = {} THEN 0 ELSE CHOOSE n \in lens : \A m \in lens : m <= n
  IN IF c.cls = "GroupStatements" THEN longest
     ELSE IF longest > 10 THEN longest ELSE 10

CRLF == <<"CR", "LF">>

\* Attribute._format, Group._format, Object._format
RECURSIVE Statement_format(_, _, _)
Statement_format(stmt, indent, width) ==
  IF stmt.kind = "Attribute"
  THEN Cat(Lit(indent \o format(stmt.identifier, width) \o <<" ", "=", " ">>),
           Value_str(stmt.value))
  ELSE LET open == IF stmt.kind = "Group" THEN <<"G","R","O","U","P">>
                   ELSE <<"O","B","J","E","C","T">>
           close == <<"E","N","D","_">> \o open
           sub_width == max_identifier_width(stmt.value)
           sub_indent == indent \o <<" ">>
           body == iter(stmt.value)
       IN Cat(Cat(Lit(indent \o format(open, width) \o <<" ", "=", " ">>
                      \o stmt.identifier),
                  IF len(stmt.value) # 0
                  THEN Cat(Cat(Lit(CRLF),
                               Join([i \in DOMAIN body |->
                                       Statement_format(body[i], sub_indent,
                                                        sub_width)], CRLF)),
                           Lit(CRLF))
                  ELSE Lit(CRLF)),
              Lit(indent \o format(close, width) \o <<" ", "=", " ">>
                  \o stmt.identifier))

\* Statements.__str__, with Label.__str__ adding "\r\nEND "
Statements_str(c) ==
  LET body == iter(c)
      all == Join([i \in DOMAIN body |->
                     Statement_format(body[i], <<>>, max_identifier_width(c))],
                  CRLF)
  IN IF c.cls = "Label" THEN Cat(all, Lit(CRLF \o <<"E", "N", "D", " ">>))
     ELSE all

\* Statements.__bytes__: str(self).encode("ascii")
Statements_bytes(c) ==
  {IF s.exc # "none" THEN s ELSE encode_ascii(s.ret) : s \in Statements_str(c)}

-----------------------------------------------------------------------------
(* The lexer: ODL_LEX_TOK_SPEC, ODL_LEX_TOK_RE, ODL_LEX_TOK_GROUPS_INDEX.   *)
(* A match of one alternative is [end, caps]: the position after it and    *)
(* its capturing groups in order, each None or Some(bytes); end = 0 says   *)
(* the alternative does not match.                                         *)

\* [ \t\v\f] and [\r\n\f\v]
WhiteSpace == {" ", "TAB", "VT", "FF"}
LineEnds == {"CR", "LF", "FF", "VT"}

NoMatch == [end |-> 0, caps |-> <<>>]
At(s, p) == IF 1 <= p /\ p <= Len(s) THEN s[p] ELSE ""
Sub(s, p, q) == Some(SubSeq(s, p, q - 1))

\* the position after the longest run from s[p] of bytes that are in class
\* (inside) or that are not in it (~inside)
RECURSIVE Span(_, _, _, _)
Span(s, p, class, inside) ==
  IF p <= Len(s) /\ ((s[p] \in class) = inside)
  THEN Span(s, p + 1, class, inside) ELSE p

DigitsEnd(s, p) == Span(s, p, Digits, TRUE)

\* comment: /\*([^\r\n\f\v]*)\*/.*?[\r\n\f\v]+  The group runs to the last
\* */ of the line, the lazy .*? to the first line end after it.
Match_comment(s, p) ==
  LET eol == Span(s, p + 2, LineEnds, FALSE)
      closes == {j \in (p + 2)..(eol - 2) : s[j] = "*" /\ s[j + 1] = "/"}
      last_close == CHOOSE j \in closes : \A k \in closes : k <= j
  IN IF At(s, p) = "/" /\ At(s, p + 1) = "*" /\ closes # {} /\ eol <= Len(s)
     THEN [end |-> Span(s, eol, LineEnds, TRUE),
           caps |-> <<Sub(s, p + 2, last_close)>>]
     ELSE NoMatch

\* ([0-9]+)(?:[-]([0-9]+))?[-]([0-9]+): the matches at s[p] in the order
\* the regex tries them, with the month first and then without it
Matches_date(s, p) ==
  LET y == DigitsEnd(s, p)
      m == DigitsEnd(s, y + 1)
      d == DigitsEnd(s, m + 1)
      two == y > p /\ At(s, y) = "-" /\ m > y + 1
      three == two /\ At(s, m) = "-" /\ d > m + 1
  IN (IF three
      THEN <<[end |-> d,
              caps |-> <<Sub(s, p, y), Sub(s, y + 1, m), Sub(s, m + 1, d)>>]>>
      ELSE <<>>)
     \o (IF two
         THEN <<[end |-> m, caps |-> <<Sub(s, p, y), None, Sub(s, y + 1, m)>>]>>
         ELSE <<>>)

\* time: ([0-9]+)[:]([0-9]+)(?:[:]([0-9]+(?:[.][0-9]*)?|[.][0-9]+))?
\*       (?:(Z)|([+-][0-9]+)(?:[:][0-9]+)?)?  under (?i)
Match_time(s, p) ==
  LET \* the zone, after the hour s[p..h-1], the minute s[h+1..mi-1] and
      \* the second, which ends before s[se]; zh ends the digits after s[se]
      Zone(h, mi, se, utc, zh) ==
        LET zone == ~utc /\ At(s, se) \in {"+", "-"} /\ zh > se + 1
            zm == DigitsEnd(s, zh + 1)
        IN [end |-> IF utc THEN se + 1
                    ELSE IF zone
                    THEN (IF At(s, zh) = ":" /\ zm > zh + 1 THEN zm ELSE zh)
                    ELSE se,
            caps |-> <<Sub(s, p, h), Sub(s, h + 1, mi),
                       IF se > mi THEN Sub(s, mi + 1, se) ELSE None,
                       IF utc THEN Sub(s, se, se + 1) ELSE None,
                       IF zone THEN Sub(s, se, zh) ELSE None>>]
      \* where the second ends: whole ends the digits after the colon at
      \* s[mi], bare those after a point that follows the colon
      SecondEnd(mi, whole, bare) ==
        IF At(s, mi) # ":" THEN mi
        ELSE IF whole > mi + 1
        THEN (IF At(s, whole) = "." THEN DigitsEnd(s, whole + 1) ELSE whole)
        ELSE IF At(s, mi + 1) = "." /\ bare > mi + 2 THEN bare
        ELSE mi
      Second(h, mi, se) ==
        Zone(h, mi, se, At(s, se) \in {"Z", "z"}, DigitsEnd(s, se + 1))
      Minute(h, mi) ==
        IF h > p /\ At(s, h) = ":" /\ mi > h + 1
        THEN Second(h, mi,
                    SecondEnd(mi, DigitsEnd(s, mi + 1), DigitsEnd(s, mi + 2)))
        ELSE NoMatch
      Hour(h) == Minute(h, DigitsEnd(s, h + 1))
  IN Hour(DigitsEnd(s, p))

\* date_time: a date, T, a time; the date without its month is tried when
\* the one with it is not followed by T and a time
Match_date_time(s, p) ==
  LET Joined(date, time) ==
        IF At(s, date.end) \in {"T", "t"} /\ time.end # 0
        THEN <<[end |-> time.end, caps |-> date.caps \o time.caps]>>
        ELSE <<>>
      WithTime(date) == Joined(date, Match_time(s, date.end + 1))
      RECURSIVE Each(_)
      Each(dates) ==
        IF dates = <<>> THEN <<>>
        ELSE WithTime(Head(dates)) \o Each(Tail(dates))
      First(matches) == IF matches = <<>> THEN NoMatch ELSE matches[1]
  IN First(Each(Matches_date(s, p)))

\* based_integer: ([0-9]+)[#]([+-]?[0-9a-zA-Z]+)[#]
Match_based_integer(s, p) ==
  LET r == DigitsEnd(s, p)
      g == IF At(s, r + 1) \in {"+", "-"} THEN r + 2 ELSE r + 1
      d == Span(s, g, AlNum, TRUE)
  IN IF r > p /\ At(s, r) = "#" /\ d > g /\ At(s, d) = "#"
     THEN [end |-> d + 1, caps |-> <<Sub(s, p, r), Sub(s, r + 1, d)>>]
     ELSE NoMatch

\* real: [+-]?(?:[0-9]+(?:[.][0-9]*)?[eE][+-]?[0-9]+|[0-9]+[.][0-9]*|[.][0-9]+)
Match_real(s, p) ==
  LET q == IF At(s, p) \in {"+", "-"} THEN p + 1 ELSE p
      i == DigitsEnd(s, q)
      f == IF At(s, i) = "." THEN DigitsEnd(s, i + 1) ELSE i
      g == IF At(s, f + 1) \in {"+", "-"} THEN f + 2 ELSE f + 1
      x == DigitsEnd(s, g)
      b == DigitsEnd(s, q + 1)
  IN IF i > q /\ At(s, f) \in {"e", "E"} /\ x > g THEN [end |-> x, caps |-> <<>>]
     ELSE IF i > q /\ At(s, i) = "." THEN [end |-> f, caps |-> <<>>]
     ELSE IF At(s, q) = "." /\ b > q + 1 THEN [end |-> b, caps |-> <<>>]
     ELSE NoMatch

\* integer: [+-]?[0-9]+
Match_integer(s, p) ==
  LET q == IF At(s, p) \in {"+", "-"} THEN p + 1 ELSE p
  IN IF DigitsEnd(s, q) > q THEN [end |-> DigitsEnd(s, q), caps |-> <<>>]
     ELSE NoMatch

\* text: "([^"]*)"
Match_text(s, p) ==
  LET q == Span(s, p + 1, {"\""}, FALSE)
  IN IF At(s, p) = "\"" /\ At(s, q) = "\""
     THEN [end |-> q + 1, caps |-> <<Sub(s, p + 1, q)>>]
     ELSE NoMatch

\* symbol: '([^'\x00-\x1f\x7f]+)'
Match_symbol(s, p) ==
  LET q == Span(s, p + 1, ControlChars \cup {"'"}, FALSE)
  IN IF At(s, p) = "'" /\ q > p + 1 /\ At(s, q) = "'"
     THEN [end |-> q + 1, caps |-> <<Sub(s, p + 1, q)>>]
     ELSE NoMatch

\* identifier: [a-zA-Z](?:[_]?[0-9a-zA-Z])*
Match_identifier(s, p) == [end |-> IdentEnd(s, p), caps |-> <<>>]

\* the one- and two-byte tokens, in the order of ODL_LEX_TOK_SPEC
Punctuation == <<
  [name |-> "equal", text |-> <<"=">>],
  [name |-> "comma", text |-> <<",">>],
  [name |-> "two_asterisk", text |-> <<"*", "*">>],
  [name |-> "asterisk", text |-> <<"*">>],
  [name |-> "slant", text |-> <<"/">>],
  [name |-> "circumflex", text |-> <<"^">>],
  [name |-> "open_bracket", text |-> <<"<">>],
  [name |-> "close_bracket", text |-> <<">">>],
  [name |-> "open_paren", text |-> <<"(">>],
  [name |-> "close_paren", text |-> <<")">>],
  [name |-> "open_brace", text |-> <<"{">>],
  [name |-> "close_brace", text |-> <<"}">>],
  [name |-> "colon", text |-> <<":">>] >>

\* the names of the groups of each token, token_re_group_names
ODL_LEX_TOK_GROUPS ==
  [n \in {"comment", "date_time", "time", "date", "based_integer", "real",
          "integer", "text", "symbol", "identifier"} \cup
         {Punctuation[i].name : i \in DOMAIN Punctuation} |->
     CASE n \in {"comment", "text", "symbol"} -> <<"string">>
       [] n = "date_time" -> <<"year", "month", "day", "hour", "minute",
                              "second", "utc", "zone_hour", "zone_minute">>
       [] n = "time" -> <<"hour", "minute", "second", "utc", "zone_hour",
                          "zone_minute">>
       [] n = "date" -> <<"year", "month", "day">>
       [] n = "based_integer" -> <<"radix", "digits">>
       [] OTHER -> <<>>]

\* ODL_LEX_TOK_RE at s[p]: the first alternative that matches, as the match
\* object [name, raw, caps, end]; name "" when none matches
Match_token(s, p) ==
  LET First(matches) == IF matches = <<>> THEN NoMatch ELSE matches[1]
      Match_punctuation(text) ==
        IF /\ At(s, p) = text[1]
           /\ Len(text) = 1 \/ At(s, p + 1) = text[2]
        THEN [end |-> p + Len(text), caps |-> <<>>]
        ELSE NoMatch
      alternatives ==
        << [name |-> "comment", m |-> Match_comment(s, p)],
           [name |-> "date_time", m |-> Match_date_time(s, p)],
           [name |-> "time", m |-> Match_time(s, p)],
           [name |-> "date", m |-> First(Matches_date(s, p))],
           [name |-> "based_integer", m |-> Match_based_integer(s, p)],
           [name |-> "real", m |-> Match_real(s, p)],
           [name |-> "integer", m |-> Match_integer(s, p)],
           [name |-> "text", m |-> Match_text(s, p)],
           [name |-> "symbol", m |-> Match_symbol(s, p)],
           [name |-> "identifier", m |-> Match_identifier(s, p)] >>
        \o [i \in DOMAIN Punctuation |->
              [name |-> Punctuation[i].name,
               m |-> Match_punctuation(Punctuation[i].text)]]
      Taken(alts) ==
        LET hits == {i \in DOMAIN alts : alts[i].m.end # 0}
            first == alts[CHOOSE i \in hits : \A j \in hits : i <= j]
        IN IF hits = {}
           THEN [name |-> "", raw |-> <<>>, caps |-> <<>>, end |-> 0]
           ELSE [name |-> first.name, raw |-> SubSeq(s, p, first.m.end - 1),
                 caps |-> first.m.caps, end |-> first.m.end]
  IN Taken(alternatives)

\* ODL_LEX_TOK_RE.finditer(byte_str): white space, a token, white space, from
\* the first position where that matches on; a byte where it does not is
\* passed over
RECURSIVE finditer(_, _)
finditer(s, p) ==
  LET Found(q, m) ==
        IF q > Len(s) THEN <<>>
        ELSE IF m.end = 0 THEN finditer(s, q + 1)
        ELSE <<[name |-> m.name, raw |-> m.raw, caps |-> m.caps]>>
             \o finditer(s, Span(s, m.end, WhiteSpace, TRUE))
      From(q) == Found(q, Match_token(s, q))
  IN From(Span(s, p, WhiteSpace, TRUE))

\* reserved_identifiers, were END the only word in it
reserved_identifiers_end_only(val) ==
  IF val = <<"e","n","d">> THEN "end" ELSE ""

\* _generate_tokens.reserved_identifiers
reserved_identifiers(val) ==
  CASE val = <<"e","n","d">> -> "end"
    [] val \in {<<"g","r","o","u","p">>,
                <<"b","e","g","i","n","_","g","r","o","u","p">>} -> "begin_group"
    [] val = <<"e","n","d","_","g","r","o","u","p">> -> "end_group"
    [] val \in {<<"o","b","j","e","c","t">>,
                <<"b","e","g","i","n","_","o","b","j","e","c","t">>} -> "begin_object"
    [] val = <<"e","n","d","_","o","b","j","e","c","t">> -> "end_object"
    [] OTHER -> ""

\* the _Token that _generate_tokens builds of a match: a reserved identifier
\* becomes a token of its own name that carries no group
Token(match) ==
  IF match.name = "identifier" /\ reserved_identifiers(lower(match.raw)) # ""
  THEN [name |-> reserved_identifiers(lower(match.raw)), raw |-> match.raw,
        caps |-> <<>>, keys |-> <<>>]
  ELSE [name |-> match.name, raw |-> match.raw, caps |-> match.caps,
        keys |-> ODL_LEX_TOK_GROUPS[match.name]]

\* key in token
TokHas(tok, key) ==
  key = tok.name \/ \E i \in DOMAIN tok.keys : tok.keys[i] = key

\* token[key] through ODL_LEX_TOK_GROUPS_INDEX: the group at the index of the
\* token's own group plus the place of key among its names; a place beyond
\* the groups of the token's regex is a group of the next alternative, which
\* took no part in the match
TokGet(tok, key) ==
  IF key = tok.name THEN Some(tok.raw)
  ELSE LET i == CHOOSE k \in DOMAIN tok.keys : tok.keys[k] = key
       IN IF i <= Len(tok.caps) THEN tok.caps[i] ELSE None

NoToken == [name |-> "None", raw |-> <<>>, caps |-> <<>>, keys |-> <<>>]

\* _generate_tokens(byte_str) before its first next(): matches holds what
\* finditer will hand out, i counts the matches taken, pc is the yield the
\* generator is suspended at, log records what it delivered
generate_tokens(byte_str) ==
  [matches |-> finditer(byte_str, 1), i |-> 0, pc |-> "start",
   sent |-> NoToken, log |-> <<>>]

\* the generator runs its for loop to the next `yield token`: comments are
\* passed over; the loop ending raises StopIteration
RECURSIVE ToNextToken(_)
ToNextToken(g) ==
  IF g.i >= Len(g.matches)
  THEN [exc |-> "StopIteration", tok |-> NoToken,
        g |-> [g EXCEPT !.pc = "done", !.i = Len(g.matches)]]
  ELSE IF g.matches[g.i + 1].name = "comment"
  THEN ToNextToken([g EXCEPT !.i = g.i + 1])
  ELSE [exc |-> "none", tok |-> Token(g.matches[g.i + 1]),
        g |-> [g EXCEPT !.pc = "token", !.i = g.i + 1]]

\* Resume, were the generator to go on to the next match in place of
\* yielding the token it was sent
Resume_forgets_sent(g, value) ==
  CASE g.pc = "done" -> [exc |-> "StopIteration", tok |-> NoToken, g |-> g]
    [] g.pc = "start" /\ value # NoToken ->
         [exc |-> "TypeError", tok |-> NoToken, g |-> g]
    [] g.pc = "token" /\ value # NoToken ->
         [exc |-> "none", tok |-> NoToken,
          g |-> [g EXCEPT !.pc = "none", !.sent = value]]
    [] OTHER -> ToNextToken(g)

\* Resume, were the generator to yield the token it was sent a second time
Resume_yields_sent_twice(g, value) ==
  CASE g.pc = "done" -> [exc |-> "StopIteration", tok |-> NoToken, g |-> g]
    [] g.pc = "start" /\ value # NoToken ->
         [exc |-> "TypeError", tok |-> NoToken, g |-> g]
    [] g.pc = "token" /\ value # NoToken ->
         [exc |-> "none", tok |-> NoToken,
          g |-> [g EXCEPT !.pc = "none", !.sent = value]]
    [] g.pc = "none" ->
         [exc |-> "none", tok |-> g.sent, g |-> [g EXCEPT !.pc = "sent"]]
    [] g.pc = "sent" ->
         [exc |-> "none", tok |-> g.sent, g |-> [g EXCEPT !.pc = "token"]]
    [] OTHER -> ToNextToken(g)

\* tokens.send(value), value NoToken for next(tokens): the generator resumes
\* at the yield it is suspended at
Resume(g, value) ==
  CASE g.pc = "done" -> [exc |-> "StopIteration", tok |-> NoToken, g |-> g]
    [] g.pc = "start" /\ value # NoToken ->
         [exc |-> "TypeError", tok |-> NoToken, g |-> g]
    [] g.pc = "token" /\ value # NoToken ->
         \* sent_token = yield token; then yield None
         [exc |-> "none", tok |-> NoToken,
          g |-> [g EXCEPT !.pc = "none", !.sent = value]]
    [] g.pc = "none" ->
         \* yield sent_token, whatever is sent
         [exc |-> "none", tok |-> g.sent, g |-> [g EXCEPT !.pc = "sent"]]
    [] OTHER ->
         \* from the start, from `yield token` resumed with None, and from
         \* `yield sent_token` whatever is sent: on to the next match
         ToNextToken(g)

\* next(tokens) and tokens.send(tok), each logged: the yield the generator
\* was suspended at, the matches taken after the call, and the token handed
\* back by next or handed in by send
next(g) ==
  LET Logged(r) ==
        [r EXCEPT !.g.log = Append(g.log, [op |-> "next", at |-> g.pc,
                                           i |-> r.g.i, exc |-> r.exc,
                                           raw |-> r.tok.raw])]
  IN Logged(Resume(g, NoToken))
send(g, tok) ==
  LET Logged(r) ==
        [r EXCEPT !.g.log = Append(g.log, [op |-> "send", at |-> g.pc,
                                           i |-> r.g.i, exc |-> r.exc,
                                           raw |-> tok.raw])]
  IN Logged(Resume(g, tok))

-----------------------------------------------------------------------------
(* The parser: _parse_units, _parse_value, _parse_stmt, _parse_label,      *)
(* parse.  Each yields [exc, ret, g]: the exception raised ("none" when it *)
(* returns), what it returns, and the token generator afterwards.          *)

Return(v, g) == [exc |-> "none", ret |-> v, g |-> g]
Raise(e, g) == [exc |-> e, ret |-> NoValue, g |-> g]

\* raise ParsingError("... {!r}".format(tok)): _Token.__repr__ decodes the
\* bytes of the token, which raises in place of the ParsingError when they
\* are not UTF-8
RaiseParsingError(tok, g) ==
  LET Repr(string) ==
        IF string.exc # "none" THEN Raise(string.exc, g)
        ELSE Raise("ParsingError", g)
  IN Repr(decode(tok.raw))

\* a StopIteration that leaves the body of a generator reaches the caller of
\* the generator as a RuntimeError
OutOfGenerator(r) ==
  IF r.exc = "StopIteration" THEN [r EXCEPT !.exc = "RuntimeError"] ELSE r

\* x = call(...) and the statements after it: an exception the call raises
\* leaves the caller too, else the rest of the caller goes on with x
Then(r, Rest(_)) == IF r.exc # "none" THEN Raise(r.exc, r.g) ELSE Rest(r)

\* int(b) of the bytes of a group that holds digits, None staying None
OptInt(group) == IF group = None THEN None ELSE Some(int(group[1], 10).ret)
OptFloat(group) == IF group = None THEN None ELSE Some(float(group[1]))

\* a value constructor's outcome as the outcome of _parse_value
Constructed(v, g) == IF v.exc # "none" THEN Raise(v.exc, g) ELSE Return(v.ret, g)

\* _parse_units: the loop `while "close_bracket" not in tok2`
RECURSIVE parse_units_loop(_, _, _)
parse_units_loop(tok2, units, g) ==
  IF TokHas(tok2, "close_bracket")
  THEN LET Decoded(text) ==
             IF text.exc # "none" THEN Raise(text.exc, g)
             ELSE Constructed(Units(text.ret, TRUE), g)
       IN Decoded(decode(units))
  ELSE Then(next(g), LAMBDA r :
         parse_units_loop(r.tok, units \o tok2.raw, r.g))

\* _parse_units, were it to push back the token it read when it has read
\* the units too
parse_units_sends_twice(g) ==
  Then(next(g), LAMBDA r1 :
    IF TokHas(r1.tok, "open_bracket")
    THEN Then(next(r1.g), LAMBDA r2 :
           Then(parse_units_loop(r2.tok, <<>>, r2.g), LAMBDA units :
             Then(next(units.g), LAMBDA r3 :
               Then(send(r3.g, r3.tok), LAMBDA once :
                 Then(send(once.g, r3.tok), LAMBDA twice :
                   Return(units.ret, twice.g))))))
    ELSE Then(send(r1.g, r1.tok), LAMBDA back : Return(None, back.g)))

\* _parse_units(tokens)
parse_units(g) ==
  Then(next(g), LAMBDA r1 :
    IF TokHas(r1.tok, "open_bracket")
    THEN Then(next(r1.g), LAMBDA r2 : parse_units_loop(r2.tok, <<>>, r2.g))
    ELSE Then(send(r1.g, r1.tok), LAMBDA back : Return(None, back.g)))

RECURSIVE parse_value(_, _)
RECURSIVE gen_values_loop(_, _, _)

\* the loops of the three gen_values: after a value, until the closing token,
\* a comma and the next value
gen_values_loop(close, vals, g) ==
  Then(next(g), LAMBDA r :
    IF TokHas(r.tok, close) THEN Return(vals, r.g)
    ELSE IF ~TokHas(r.tok, "comma") THEN RaiseParsingError(r.tok, r.g)
    ELSE Then(next(r.g), LAMBDA n :
           Then(parse_value(n.tok, n.g), LAMBDA v :
             gen_values_loop(close, Append(vals, v.ret), v.g))))

\* _parse_value(tok1, tokens)
parse_value(tok1, g) ==
  IF TokHas(tok1, "open_paren")
  THEN Then(next(g), LAMBDA r2 :
         \* gen_values(): its first value, then its loop
         Then(OutOfGenerator(
                Then(parse_value(r2.tok, r2.g), LAMBDA first :
                  gen_values_loop("close_paren", <<first.ret>>, first.g))),
              LAMBDA vals :
                IF TokHas(r2.tok, "open_paren")
                THEN Constructed(Sequence2D(vals.ret), vals.g)
                ELSE Constructed(Sequence1D(vals.ret), vals.g)))
  ELSE IF TokHas(tok1, "open_brace")
  THEN Then(OutOfGenerator(
              Then(next(g), LAMBDA r2 :
                IF TokHas(r2.tok, "close_brace") THEN Return(<<>>, r2.g)
                ELSE Then(parse_value(r2.tok, r2.g), LAMBDA first :
                       gen_values_loop("close_brace", <<first.ret>>, first.g)))),
            LAMBDA vals : Constructed(Set(vals.ret), vals.g))
  ELSE IF TokHas(tok1, "identifier")
  THEN Constructed(Identifier(decode(tok1.raw).ret, FALSE), g)
  ELSE IF TokHas(tok1, "symbol") \/ TokHas(tok1, "text")
  THEN LET Decoded(string) ==
             IF string.exc # "none" THEN Raise(string.exc, g)
             ELSE IF TokHas(tok1, "symbol")
             THEN Constructed(Symbol(string.ret, FALSE), g)
             ELSE Constructed(Text(string.ret, FALSE), g)
       IN Decoded(decode(TokGet(tok1, "string")[1]))
  ELSE IF TokHas(tok1, "date")
  THEN Constructed(Date(int(TokGet(tok1, "year")[1], 10).ret,
                        OptInt(TokGet(tok1, "month")),
                        int(TokGet(tok1, "day")[1], 10).ret), g)
  ELSE IF TokHas(tok1, "time")
  THEN Constructed(Time(int(TokGet(tok1, "hour")[1], 10).ret,
                        int(TokGet(tok1, "minute")[1], 10).ret,
                        OptFloat(TokGet(tok1, "second")),
                        TokGet(tok1, "utc") # None,
                        OptInt(TokGet(tok1, "zone_hour")),
                        OptInt(TokGet(tok1, "zone_minute"))), g)
  ELSE IF TokHas(tok1, "date_time")
  THEN Constructed(DateTime(int(TokGet(tok1, "year")[1], 10).ret,
                            OptInt(TokGet(tok1, "month")),
                            int(TokGet(tok1, "day")[1], 10).ret,
                            int(TokGet(tok1, "hour")[1], 10).ret,
                            int(TokGet(tok1, "minute")[1], 10).ret,
                            OptFloat(TokGet(tok1, "second")),
                            TokGet(tok1, "utc") # None,
                            OptInt(TokGet(tok1, "zone_hour")),
                            OptInt(TokGet(tok1, "zone_minute"))), g)
  ELSE IF TokHas(tok1, "integer") \/ TokHas(tok1, "based_integer")
          \/ TokHas(tok1, "real")
  THEN Then(parse_units(g), LAMBDA units :
         IF TokHas(tok1, "integer")
         THEN Constructed(Integer(int(tok1.raw, 10).ret, units.ret), units.g)
         ELSE IF TokHas(tok1, "based_integer")
         THEN Constructed(BasedInteger(int(TokGet(tok1, "radix")[1], 10).ret,
                                       decode(TokGet(tok1, "digits")[1]).ret,
                                       units.ret), units.g)
         ELSE Constructed(Real(float(tok1.raw), units.ret), units.g))
  ELSE RaiseParsingError(tok1, g)

RECURSIVE parse_stmt(_, _)
RECURSIVE parse_block_loop(_, _, _, _)

\* the loop of a block, were either closing keyword to end it
parse_block_loop_any_closing(close, statements, tok4, g) ==
  IF TokHas(tok4, "end_object") \/ TokHas(tok4, "end_group")
  THEN Return(statements, g)
  ELSE Then(parse_stmt(tok4, g), LAMBDA stmt :
         LET Appended(appended) ==
               IF appended.exc # "none" THEN Raise(appended.exc, stmt.g)
               ELSE Then(next(stmt.g), LAMBDA r :
                      parse_block_loop(close, appended.c, r.tok, r.g))
         IN Appended(append(statements, stmt.ret)))

\* the loop `while "end_object" not in tok4` of an OBJECT, and that of a
\* GROUP: each statement is appended to the block's container
parse_block_loop(close, statements, tok4, g) ==
  IF TokHas(tok4, close) THEN Return(statements, g)
  ELSE Then(parse_stmt(tok4, g), LAMBDA stmt :
         LET Appended(appended) ==
               IF appended.exc # "none" THEN Raise(appended.exc, stmt.g)
               ELSE Then(next(stmt.g), LAMBDA r :
                      parse_block_loop(close, appended.c, r.tok, r.g))
         IN Appended(append(statements, stmt.ret)))

\* the comparison of the closing name, were it to pass over the case of the
\* letters
closing_identifier_differs_but_for_case(tok6, identifier) ==
  lower(tok6.raw) # lower(identifier)

\* tok6["identifier"] != identifier, of the token after END_OBJECT = or
\* END_GROUP = and the identifier of the opening
closing_identifier_differs(tok6, identifier) == tok6.raw # identifier

\* a statement constructor's outcome as the outcome of _parse_stmt
ConstructedStmt(s, g) ==
  IF s.exc # "none" THEN Raise(s.exc, g) ELSE Return(s.stmt, g)

\* _parse_stmt(tok1, tokens)
parse_stmt(tok1, g) ==
  IF TokHas(tok1, "identifier") \/ TokHas(tok1, "circumflex")
  THEN LET \* the identifier is read, and the token after it
           Named(identifier, tok, tokens) ==
             [exc |-> "none", ret |-> identifier, tok |-> tok, g |-> tokens]
           name ==
             IF TokHas(tok1, "identifier")
             THEN Then(next(g), LAMBDA r2 :
                    IF TokHas(r2.tok, "colon")
                    THEN Then(next(r2.g), LAMBDA r3 :
                           IF ~TokHas(r3.tok, "identifier")
                           THEN RaiseParsingError(r3.tok, r3.g)
                           ELSE Then(next(r3.g), LAMBDA r2b :
                                  Named(tok1.raw \o <<":">> \o r3.tok.raw,
                                        r2b.tok, r2b.g)))
                    ELSE Named(tok1.raw, r2.tok, r2.g))
             ELSE Then(next(g), LAMBDA r2 :
                    IF ~TokHas(r2.tok, "identifier")
                    THEN RaiseParsingError(r2.tok, r2.g)
                    ELSE Then(next(r2.g), LAMBDA r3 :
                           Named(<<"^">> \o r2.tok.raw, r3.tok, r3.g)))
       IN Then(name, LAMBDA equal :
            IF ~TokHas(equal.tok, "equal")
            THEN RaiseParsingError(equal.tok, equal.g)
            ELSE Then(next(equal.g), LAMBDA rv :
                   Then(parse_value(rv.tok, rv.g), LAMBDA value :
                     ConstructedStmt(Attribute(decode(equal.ret).ret,
                                               value.ret, FALSE),
                                     value.g))))
  ELSE IF TokHas(tok1, "begin_object") \/ TokHas(tok1, "begin_group")
  THEN LET object == TokHas(tok1, "begin_object")
           Block(identifier, body, tokens) ==
             IF object
             THEN ConstructedStmt(Object(decode(identifier).ret, body, FALSE),
                                  tokens)
             ELSE ConstructedStmt(Group(decode(identifier).ret, body, FALSE),
                                  tokens)
       IN Then(next(g), LAMBDA r2 :
            IF ~TokHas(r2.tok, "equal") THEN RaiseParsingError(r2.tok, r2.g)
            ELSE Then(next(r2.g), LAMBDA r3 :
              IF ~TokHas(r3.tok, "identifier")
              THEN RaiseParsingError(r3.tok, r3.g)
              ELSE Then(next(r3.g), LAMBDA r4 :
                Then(parse_block_loop(
                       IF object THEN "end_object" ELSE "end_group",
                       NewStatements(IF object THEN "ObjectStatements"
                                     ELSE "GroupStatements"),
                       r4.tok, r4.g),
                     LAMBDA body :
                  Then(next(body.g), LAMBDA r5 :
                    IF TokHas(r5.tok, "equal")
                    THEN Then(next(r5.g), LAMBDA r6 :
                           IF \/ ~TokHas(r6.tok, "identifier")
                              \/ closing_identifier_differs(r6.tok, r3.tok.raw)
                           THEN RaiseParsingError(r6.tok, r6.g)
                           ELSE Block(r3.tok.raw, body.ret, r6.g))
                    ELSE Then(send(r5.g, r5.tok), LAMBDA back :
                           Block(r3.tok.raw, body.ret, back.g)))))))
  ELSE RaiseParsingError(tok1, g)

\* _parse_label(tokens): a StopIteration raised inside its loop becomes
\* ParsingError("unexpected end")
RECURSIVE parse_label_loop(_, _)
parse_label_loop(label, g) ==
  LET caught(x) == IF x.exc = "StopIteration"
                   THEN [x EXCEPT !.exc = "ParsingError"] ELSE x
      Appended(stmt, appended) ==
        IF appended.exc # "none" THEN Raise(appended.exc, stmt.g)
        ELSE parse_label_loop(appended.c, stmt.g)
  IN caught(Then(next(g), LAMBDA r :
              IF TokHas(r.tok, "end") THEN Return(label, r.g)
              ELSE Then(parse_stmt(r.tok, r.g), LAMBDA stmt :
                     Appended(stmt, append(label, stmt.ret)))))

parse_label(g) == parse_label_loop(NewStatements("Label"), g)

\* parse, were it to take what follows END for a part of the label
parse_to_the_last_byte(byte_string) ==
  Then(parse_label(generate_tokens(byte_string)), LAMBDA label :
    LET After(r) == IF r.exc = "StopIteration" THEN Return(label.ret, r.g)
                    ELSE RaiseParsingError(r.tok, r.g)
    IN After(next(label.g)))

\* parse(byte_string)
parse(byte_string) == parse_label(generate_tokens(byte_string))

-----------------------------------------------------------------------------
(* The calls a program makes on one container *)

\* the container classes
Flavors == {"Label", "GroupStatements", "ObjectStatements"}

\* the keys used: two spellings of one identifier, another identifier, and a
\* reserved word
Keys == {<<"a">>, <<"A">>, <<"b">>, <<"e","n","d">>}

\* the values assigned by key: an Integer, the two nested containers, and a
\* Python int, which is no Value
NotAValue == [cls |-> "int"]
SetValues == {Integer(2, None).ret,
              NewStatements("GroupStatements"),
              NewStatements("ObjectStatements"),
              NotAValue}

\* the statements inserted: what the constructors return for these
\* identifiers and values, and a str, which is no statement
NotAStatement == [kind |-> "str", identifier |-> <<"a">>, value |-> [cls |-> "str"]]
InsertStatements ==
  {Attribute(k, Integer(1, None).ret, TRUE).stmt : k \in {<<"a">>, <<"b">>}}
  \cup {Attribute(<<"A">>, Integer(2, None).ret, TRUE).stmt,
        Group(<<"b">>, NewStatements("GroupStatements"), TRUE).stmt,
        Object(<<"c">>, NewStatements("ObjectStatements"), TRUE).stmt,
        Attribute(<<"d">>, Integer(1, None).ret, TRUE).stmt,
        NotAStatement}

\* the indices used: every index in range, and one out of range on each side
Indices == (0 - MaxLen - 1)..(MaxLen + 1)

NoCall == [op |-> "none", index |-> 0, key |-> <<>>, arg |-> NoRet,
           exc |-> "none", ret |-> NoRet, before |-> NewStatements("Label")]

CallRecord(op, index, key, arg, r, before) ==
  [op |-> op, index |-> index, key |-> key, arg |-> arg,
   exc |-> r.exc, ret |-> r.ret, before |-> before]

RevIdle == [pc |-> "idle", cur |-> Proxy, out |-> <<>>]

\* no parse is under way
NoOutcome ==
  [exc |-> "none", ret |-> NoValue, log |-> <<>>, taken |-> 0, lexed |-> <<>>]
NoRun == [pc |-> "off", byte_string |-> <<>>, parsed |-> NoOutcome,
          emitted |-> NoOutcome, reparsed |-> NoOutcome]

\* no value is being built
NoObject == [pc |-> "off", op |-> "none", args |-> <<>>, exc |-> "none",
             value |-> NoValue, before |-> NoValue]

(* the reference list: a Python list under the same calls *)

\* list.insert(index, x)
ListInsert(l, index, x) ==
  LET i == IF index < 0 THEN (IF Len(l) + index > 0 THEN Len(l) + index ELSE 0)
           ELSE (IF index > Len(l) THEN Len(l) ELSE index)
  IN SubSeq(l, 1, i) \o <<x>> \o SubSeq(l, i + 1, Len(l))

\* del l[i], for 0 <= i < len(l)
ListRemove(l, i) == SubSeq(l, 1, i) \o SubSeq(l, i + 2, Len(l))

\* the positions (from 1) of the statements of l whose identifier is ident
Positions(l, ident) == {i \in DOMAIN l : l[i].identifier = ident}

\* the program is between two calls on its container: the last one has
\* returned and been looked at, no generator is running, and it is not in a
\* parse run
Ready == last.op = "none" /\ rev.pc = "idle" /\ run.pc = "off"

Init ==
  /\ \E f \in Flavors : cont = NewStatements(f)
  /\ ref = <<>>
  /\ last = NoCall
  /\ rev = RevIdle
  /\ run = NoRun
  /\ obj = NoObject

\* container.insert(index, statement)
CallInsert ==
  \E index \in Indices, statement \in InsertStatements :
    LET r == insert(cont, index, statement)
    IN /\ Ready
       /\ len(r.c) <= MaxLen
       /\ cont' = Renumber(r.c)
       /\ ref' = IF r.exc = "none" THEN ListInsert(ref, index, statement) ELSE ref
       /\ last' = CallRecord("insert", index, statement.identifier, statement, r, cont)
       /\ UNCHANGED <<rev, run, obj>>

\* container.append(statement)
CallAppend ==
  \E statement \in InsertStatements :
    LET r == append(cont, statement)
    IN /\ Ready
       /\ len(r.c) <= MaxLen
       /\ cont' = Renumber(r.c)
       /\ ref' = IF r.exc = "none" THEN ref \o <<statement>> ELSE ref
       /\ last' = CallRecord("append", 0, statement.identifier, statement, r, cont)
       /\ UNCHANGED <<rev, run, obj>>

\* container.get(index)
CallGet ==
  \E index \in Indices :
    LET r == get(cont, index)
    IN /\ Ready
       /\ cont' = Renumber(r.c)
       /\ last' = CallRecord("get", index, <<>>, NoRet, r, cont)
       /\ UNCHANGED <<ref, rev, run, obj>>

\* container.pop(index)
CallPop ==
  \E index \in Indices :
    LET r == pop(cont, index)
        i == IF index < 0 THEN Len(ref) + index ELSE index
    IN /\ Ready
       /\ cont' = Renumber(r.c)
       /\ ref' = IF r.exc = "none" THEN ListRemove(ref, i) ELSE ref
       /\ last' = CallRecord("pop", index, <<>>, NoRet, r, cont)
       /\ UNCHANGED <<rev, run, obj>>

\* container[key] = value
CallSetItem ==
  \E key \in Keys, value \in SetValues :
    LET r == setitem(cont, key, value)
        at == Positions(ref, upper(key))
        stmt == MakeStatement(key, value).stmt
    IN /\ Ready
       /\ len(r.c) <= MaxLen
       /\ cont' = Renumber(r.c)
       /\ ref' = IF r.exc # "none" THEN ref
                 ELSE IF at = {} THEN ref \o <<stmt>>
                      ELSE [i \in DOMAIN ref |-> IF i \in at THEN stmt ELSE ref[i]]
       /\ last' = CallRecord("setitem", 0, key, value, r, cont)
       /\ UNCHANGED <<rev, run, obj>>

\* del container[key]
CallDelItem ==
  \E key \in Keys :
    LET r == delitem(cont, key)
        at == Positions(ref, upper(key))
    IN /\ Ready
       /\ cont' = Renumber(r.c)
       /\ ref' = IF r.exc # "none" THEN ref
                 ELSE ListRemove(ref, (CHOOSE i \in at : TRUE) - 1)
       /\ last' = CallRecord("delitem", 0, key, NoRet, r, cont)
       /\ UNCHANGED <<rev, run, obj>>

\* reversed(container): Statements.__reversed__ up to its loop
ReversedStart ==
  /\ Ready
  /\ rev' = [pc |-> "running", cur |-> PrevOf(cont.heap, Proxy), out |-> <<>>]
  /\ last' = [NoCall EXCEPT !.op = "reversed", !.before = cont]
  /\ UNCHANGED <<cont, ref, run, obj>>

\* next() on the generator: one turn of the loop of Statements.__reversed__
ReversedNext ==
  /\ rev.pc = "running"
  /\ Len(rev.out) < MaxYield
  /\ rev' = IF rev.cur # Proxy
            THEN [pc |-> "running",
                  cur |-> PrevOf(cont.heap, rev.cur),
                  out |-> Append(rev.out, cont.heap[Deref(rev.cur)].value)]
            ELSE [rev EXCEPT !.pc = "done"]
  /\ UNCHANGED <<cont, ref, last, run, obj>>

\* the generator is dropped
ReversedClose ==
  /\ rev.pc # "idle"
  /\ rev' = RevIdle
  /\ last' = NoCall
  /\ UNCHANGED <<cont, ref, run, obj>>

\* the program goes on to its next call
Continue ==
  /\ last.op \notin {"none", "reversed"}
  /\ last' = NoCall
  /\ UNCHANGED <<cont, ref, rev, run, obj>>

Next ==
  \/ CallInsert
  \/ CallAppend
  \/ CallGet
  \/ CallPop
  \/ CallSetItem
  \/ CallDelItem
  \/ ReversedStart
  \/ ReversedNext
  \/ ReversedClose
  \/ Continue

Spec == Init /\ [][Next]_vars

-----------------------------------------------------------------------------
(* The byte strings parsed: a skeleton of statements, block openings and   *)
(* block closings, with one statement that carries a value of interest put *)
(* in at any place or left out, and then END or nothing                    *)

\* the most fragments in a skeleton
MaxFragments == 3

\* the fragments of a skeleton: an attribute with units, and the opening and
\* the closing of a group and of an object
Skeleton == {
  \* A = 2 <km>\r\n
  <<"A"," ","="," ","2"," ","<","k","m",">","CR","LF">>,
  \* GROUP = g 
  <<"G","R","O","U","P"," ","="," ","g"," ">>,
  \* END_GROUP = g 
  <<"E","N","D","_","G","R","O","U","P"," ","="," ","g"," ">>,
  \* OBJECT = o 
  <<"O","B","J","E","C","T"," ","="," ","o"," ">>,
  \* END_OBJECT 
  <<"E","N","D","_","O","B","J","E","C","T"," ">> }

\* attributes whose values the value model rejects, or takes and serializes
ValueStatements == {
  \* b = 2000-13-01 
  <<"b"," ","="," ","2","0","0","0","-","1","3","-","0","1"," ">>,
  \* b = 17#1# 
  <<"b"," ","="," ","1","7","#","1","#"," ">>,
  \* b = {1.5} 
  <<"b"," ","="," ","{","1",".","5","}"," ">>,
  \* b = (1, (2)) 
  <<"b"," ","="," ","(","1",","," ","(","2",")",")"," ">>,
  \* b = "\xc3\xa9" 
  <<"b"," ","="," ","\"","xC3","xA9","\""," ">>,
  \* b = 1e999 
  <<"b"," ","="," ","1","e","9","9","9"," ">>,
  \* b = (12:30:05.5+05:30, 16#fF# <m/s**2>, 1.50) 
  <<"b"," ","="," ","(","1","2",":","3","0",":","0","5",".","5","+","0","5",
    ":","3","0",","," ","1","6","#","f","F","#"," ","<","m","/","s","*","*",
    "2",">",","," ","1",".","5","0",")"," ">>,
  \* b = {1, 'x'} /* c */\r\n
  <<"b"," ","="," ","{","1",","," ","'","x","'","}"," ","/","*"," ","c"," ",
    "*","/","CR","LF">>,
  \* b = ((1, x), (y)) 
  <<"b"," ","="," ","(","(","1",","," ","x",")",","," ","(","y",")",")"," ">> }

\* what follows the statements
Endings == {
  \* 
  <<>>,
  \* END 
  <<"E","N","D"," ">> }

\* statements the input stops in, or goes on after: inside a sequence, a set,
\* the units of an attribute and the units of a value in a sequence; and a
\* statement with bytes that start no token
CutShort == {
  \* b = (1, 2 
  <<"b"," ","="," ","(","1",","," ","2"," ">>,
  \* b = {1 
  <<"b"," ","="," ","{","1"," ">>,
  \* b = 2 <km 
  <<"b"," ","="," ","2"," ","<","k","m"," ">>,
  \* b = (2 <k 
  <<"b"," ","="," ","(","2"," ","<","k"," ">>,
  \* b @= \xff 1 
  <<"b"," ","@","="," ","xFF"," ","1"," ">> }

\* what a statement cut short stands in: the label, a group, an object
Openings == {
  \* 
  <<>>,
  \* GROUP = g 
  <<"G","R","O","U","P"," ","="," ","g"," ">>,
  \* OBJECT = o 
  <<"O","B","J","E","C","T"," ","="," ","o"," ">> }

\* bytes after END that are no label: @ = ( \xff b
Trailing == <<"@"," ","="," ","(","xFF"," ","b">>

\* reserved words where a name or a value is looked for, and names that only
\* hold one
Misplaced == {
  \* x:END = 1 
  <<"x",":","E","N","D"," ","="," ","1"," ">>,
  \* ^Group = 1 
  <<"^","G","r","o","u","p"," ","="," ","1"," ">>,
  \* OBJECT = end_object 
  <<"O","B","J","E","C","T"," ","="," ","e","n","d","_","o","b","j","e","c",
    "t"," ">>,
  \* b = End 
  <<"b"," ","="," ","E","n","d"," ">>,
  \* b = (1, OBJECT) 
  <<"b"," ","="," ","(","1",","," ","O","B","J","E","C","T",")"," ">>,
  \* b = {begin_group} 
  <<"b"," ","="," ","{","b","e","g","i","n","_","g","r","o","u","p","}",
    " ">>,
  \* end_x:object_1 = (ending) 
  <<"e","n","d","_","x",":","o","b","j","e","c","t","_","1"," ","="," ","(",
    "e","n","d","i","n","g",")"," ">> }

\* times and a date-time with a zone, and a time in UTC
Zoned == {
  \* b = 12:30+05:30 
  <<"b"," ","="," ","1","2",":","3","0","+","0","5",":","3","0"," ">>,
  \* b = 2001-01-01T12:30:05-05:45 
  <<"b"," ","="," ","2","0","0","1","-","0","1","-","0","1","T","1","2",":",
    "3","0",":","0","5","-","0","5",":","4","5"," ">>,
  \* b = 12:30-05 
  <<"b"," ","="," ","1","2",":","3","0","-","0","5"," ">>,
  \* b = 12:30:01.5Z 
  <<"b"," ","="," ","1","2",":","3","0",":","0","1",".","5","Z"," ">> }

\* blocks closed with a name and without one, after a statement that read
\* the closing keyword ahead, and with a name that is not that of the opening
Closings == {
  \* OBJECT = o END_OBJECT = O 
  <<"O","B","J","E","C","T"," ","="," ","o"," ","E","N","D","_","O","B","J",
    "E","C","T"," ","="," ","O"," ">>,
  \* OBJECT = o END_OBJECT = p c = 1 
  <<"O","B","J","E","C","T"," ","="," ","o"," ","E","N","D","_","O","B","J",
    "E","C","T"," ","="," ","p"," ","c"," ","="," ","1"," ">>,
  \* GROUP = g END_GROUP = 1 
  <<"G","R","O","U","P"," ","="," ","g"," ","E","N","D","_","G","R","O","U",
    "P"," ","="," ","1"," ">>,
  \* OBJECT = o b = 1 END_OBJECT = o c = 1 
  <<"O","B","J","E","C","T"," ","="," ","o"," ","b"," ","="," ","1"," ","E",
    "N","D","_","O","B","J","E","C","T"," ","="," ","o"," ","c"," ","="," ",
    "1"," ">>,
  \* OBJECT = o OBJECT = p END_OBJECT END_OBJECT = o 
  <<"O","B","J","E","C","T"," ","="," ","o"," ","O","B","J","E","C","T"," ",
    "="," ","p"," ","E","N","D","_","O","B","J","E","C","T"," ","E","N","D",
    "_","O","B","J","E","C","T"," ","="," ","o"," ">>,
  \* OBJECT = o b = 1 
  <<"O","B","J","E","C","T"," ","="," ","o"," ","b"," ","="," ","1"," ">>,
  \* GROUP = g b = 1 END_OBJECT 
  <<"G","R","O","U","P"," ","="," ","g"," ","b"," ","="," ","1"," ","E","N",
    "D","_","O","B","J","E","C","T"," ">>,
  \* GROUP = g b = 1 END_GROUP c = 2 end_group 
  <<"G","R","O","U","P"," ","="," ","g"," ","b"," ","="," ","1"," ","E","N",
    "D","_","G","R","O","U","P"," ","c"," ","="," ","2"," ","e","n","d","_",
    "g","r","o","u","p"," ">>,
  \* OBJECT = o END_OBJECT c = 1 OBJECT = p END_OBJECT = p 
  <<"O","B","J","E","C","T"," ","="," ","o"," ","E","N","D","_","O","B","J",
    "E","C","T"," ","c"," ","="," ","1"," ","O","B","J","E","C","T"," ","=",
    " ","p"," ","E","N","D","_","O","B","J","E","C","T"," ","="," ","p"," ">> }

\* what such a statement stands in: the label, an object, a group; what
\* opens the block and what closes it
Wrappers == {
  <<<<>>, <<>>>>,
  \* OBJECT = w ... END_OBJECT 
  <<<<"O","B","J","E","C","T"," ","="," ","w"," ">>,
    <<"E","N","D","_","O","B","J","E","C","T"," ">>>>,
  \* GROUP = w ... END_GROUP = w 
  <<<<"G","R","O","U","P"," ","="," ","w"," ">>,
    <<"E","N","D","_","G","R","O","U","P"," ","="," ","w"," ">>>> }

\* such statements in what they stand in, with and without END after them
Wrapped ==
  {w[1] \o m \o w[2] \o e :
     w \in Wrappers, m \in Misplaced \cup Zoned \cup Closings, e \in Endings}

RECURSIVE Concat(_)
Concat(parts) == IF parts = <<>> THEN <<>> ELSE parts[1] \o Concat(Tail(parts))

ByteStrings ==
  LET skeletons == UNION {[1..n -> Skeleton] : n \in 0..MaxFragments}
      Put(k, v) == {SubSeq(k, 1, i) \o <<v>> \o SubSeq(k, i + 1, Len(k)) :
                      i \in 0..Len(k)}
      with == UNION {Put(k, v) : k \in skeletons, v \in ValueStatements}
      whole == {Concat(k) \o e : k \in skeletons \cup with, e \in Endings}
      cut == {o \o c \o e : o \in Openings, c \in CutShort, e \in Endings}
      ended == {Concat(k) \o <<"E","N","D"," ">> : k \in skeletons}
               \cup {v \o <<"E","N","D"," ">> : v \in ValueStatements \cup CutShort}
  IN whole \cup cut \cup Wrapped \cup {p \o Trailing : p \in ended}

-----------------------------------------------------------------------------
(* A parse run: a program calls parse(byte_string), then bytes() on the    *)
(* label it got, then parse() on those bytes                               *)

\* the tokens the lexer has found for a generator, finditer being lazy: the
\* bytes of every match taken that is not a comment, in the order of the
\* input
LexerTokens(g) ==
  LET RECURSIVE From(_)
      From(i) ==
        IF i > g.i THEN <<>>
        ELSE IF g.matches[i].name = "comment" THEN From(i + 1)
        ELSE <<g.matches[i].raw>> \o From(i + 1)
  IN From(1)

\* what a parse run keeps of a call of parse: the exception or the label,
\* the calls made on the token generator, the matches it took, and the
\* tokens of the lexer
Outcome(r) ==
  [exc |-> r.exc, ret |-> r.ret, log |-> r.g.log, taken |-> r.g.i,
   lexed |-> LexerTokens(r.g)]

InitParse ==
  /\ cont = NewStatements("Label")
  /\ ref = <<>>
  /\ last = NoCall
  /\ rev = RevIdle
  /\ \E b \in ByteStrings : run = [NoRun EXCEPT !.pc = "input", !.byte_string = b]
  /\ obj = NoObject

\* label = parse(byte_string)
Parse ==
  /\ run.pc = "input"
  /\ run' = [run EXCEPT !.pc = "parsed", !.parsed = Outcome(parse(run.byte_string))]
  /\ UNCHANGED <<cont, ref, last, rev, obj>>

\* bytes(label)
Emit ==
  /\ run.pc = "parsed"
  /\ run.parsed.exc = "none"
  /\ \E b \in Statements_bytes(run.parsed.ret) :
       run' = [run EXCEPT !.pc = "emitted", !.emitted = b]
  /\ UNCHANGED <<cont, ref, last, rev, obj>>

\* parse(bytes(label))
Reparse ==
  /\ run.pc = "emitted"
  /\ run.emitted.exc = "none"
  /\ run' = [run EXCEPT !.pc = "reparsed",
                        !.reparsed = Outcome(parse(run.emitted.ret))]
  /\ UNCHANGED <<cont, ref, last, rev, obj>>

NextParse ==
  \/ Parse
  \/ Emit
  \/ Reparse

SpecParse == InitParse /\ [][NextParse]_vars

\* the calls on a container and the parse runs together
InitAll == Init \/ InitParse

NextAll ==
  \/ CallInsert
  \/ CallAppend
  \/ CallGet
  \/ CallPop
  \/ CallSetItem
  \/ CallDelItem
  \/ ReversedStart
  \/ ReversedNext
  \/ ReversedClose
  \/ Continue
  \/ Parse
  \/ Emit
  \/ Reparse

SpecAll == InitAll /\ [][NextAll]_vars

-----------------------------------------------------------------------------
(* The methods of Set, Sequence1D and Sequence2D.  Each yields [exc, ret,  *)
(* c]: the exception raised, what is returned, and the object afterwards   *)

\* Set.add, were it to take every Scalar
Set_add_any_scalar(s, value) ==
  IF value.cls \in ScalarClasses
  THEN Result("none", NoRet, [s EXCEPT !.members = @ \cup {value}])
  ELSE Result("TypeError", NoRet, s)

\* Set.add(value)
Set_add(s, value) ==
  IF value.cls \in {"Symbol", "Integer"}
  THEN Result("none", NoRet, [s EXCEPT !.members = @ \cup {value}])
  ELSE Result("TypeError", NoRet, s)

\* Set.discard(value)
Set_discard(s, value) ==
  Result("none", NoRet, [s EXCEPT !.members = @ \ {value}])

\* Sequence1D.insert(index, value)
Sequence1D_insert(s, index, value) ==
  IF value.cls \in ScalarClasses
  THEN Result("none", NoRet, [s EXCEPT !.list = ListInsert(@, index, value)])
  ELSE Result("TypeError", NoRet, s)

\* Sequence2D.insert(index, value): isinstance(value, Sequence1D) holds of a
\* Sequence2D too
Sequence2D_insert(s, index, value) ==
  IF value.cls \in {"Sequence1D", "Sequence2D"}
  THEN Result("none", NoRet, [s EXCEPT !.list = ListInsert(@, index, value)])
  ELSE Result("TypeError", NoRet, s)

\* self.insert(index, value) on a sequence of either class
Sequence_insert(s, index, value) ==
  IF s.cls = "Sequence2D" THEN Sequence2D_insert(s, index, value)
  ELSE Sequence1D_insert(s, index, value)

\* MutableSequence.append(value): self.insert(len(self), value)
Sequence_append(s, value) == Sequence_insert(s, Len(s.list), value)

\* Sequence1D.__setitem__(index, value): self.insert(index, value)
Sequence_setitem(s, index, value) == Sequence_insert(s, index, value)

-----------------------------------------------------------------------------
(* A program that builds values and statements, by their constructors or   *)
(* by parse, and calls the methods of the sets and sequences it built      *)

\* the most members of a set and items of a sequence the calls grow it to
MaxItems == 2

\* the dates built: years of each kind of the leap year rule, months in and
\* around 1..12 and none, days in and around the ends of the months and years
Years == {1900, 2000, 2001, 2004, 2400}
Months == {None} \cup {Some(m) : m \in {0, 1, 2, 3, 4, 12, 13}}
Days == {0, 1, 28, 29, 30, 31, 32, 365, 366, 367}

\* the bytes of a date: YYYY-MM-DD, or YYYY-DDD when there is no month
DateBytes(year, month, day) ==
  NatStr(year) \o <<"-">>
  \o (IF month = None THEN <<>> ELSE Format02d(month[1]) \o <<"-">>)
  \o Format02d(day)

\* the radixes, digit strings and units a BasedInteger is built of
Radixes == 1..17
DigitStrings == {<<"0">>, <<"1">>, <<"1", "0", "1">>, <<"7">>, <<"9">>,
                 <<"a">>, <<"f", "F">>, <<"F", "F">>, <<"g">>, <<"G">>,
                 <<"0", "b", "1">>}
SomeUnits == {None, Units(<<"k", "m">>, TRUE).ret}

\* what is added to a set and put into a sequence: scalars of several
\* classes, a set, sequences of depth one and two, and a Python int
Arguments ==
  {Integer(1, None).ret,
   Symbol(<<"x">>, TRUE).ret,
   Real(float(<<"1", ".", "5">>), None).ret,
   BasedInteger(16, <<"f", "f">>, None).ret,
   Set(<<>>).ret,
   Sequence1D(<<Integer(1, None).ret>>).ret,
   Sequence2D(<<Sequence1D(<<Integer(1, None).ret>>).ret>>).ret,
   NotAValue}

\* the argument lists of the constructors of Set, Sequence1D, Sequence2D
ArgumentLists == UNION {[1..n -> Arguments] : n \in 0..MaxItems}

\* the indices of insert and item assignment
ItemIndices == (0 - MaxItems - 1)..(MaxItems + 1)

\* the values parsed, as the bytes after `b = `
ValueTexts == {
  \* (((1)))
  <<"(","(","(","1",")",")",")">>,
  \* ((1, x), (y))
  <<"(","(","1",","," ","x",")",","," ","(","y",")",")">>,
  \* (1, (2))
  <<"(","1",","," ","(","2",")",")">>,
  \* ((1), 2)
  <<"(","(","1",")",","," ","2",")">>,
  \* (2001-03-32, 1)
  <<"(","2","0","0","1","-","0","3","-","3","2",","," ","1",")">>,
  \* {1, 'x'}
  <<"{","1",","," ","'","x","'","}">>,
  \* {}
  <<"{","}">>,
  \* {1.5}
  <<"{","1",".","5","}">>,
  \* {16#ff#}
  <<"{","1","6","#","f","f","#","}">>,
  \* {x}
  <<"{","x","}">>,
  \* 16#fF# <km>
  <<"1","6","#","f","F","#"," ","<","k","m",">">>,
  \* 2001-03-32T10:00Z
  <<"2","0","0","1","-","0","3","-","3","2","T","1","0",":","0","0","Z">> }

\* the identifiers statements are built with: the reserved words in three
\* spellings, some of them as NAMESPACE, as NAME and after ^, and identifiers
\* with no reserved word in them
Identifiers ==
  LET words == ReservedWords \cup {upper(w) : w \in ReservedWords}
               \cup {<<"E", "n", "d">>, <<"E", "n", "d", "_", "G", "r", "o", "u", "p">>}
      some == {<<"E", "N", "D">>, <<"g", "r", "o", "u", "p">>,
               <<"E", "n", "d", "_", "O", "b", "j", "e", "c", "t">>}
  IN words
     \cup {w \o <<":", "x">> : w \in some}
     \cup {<<"x", ":">> \o w : w \in some}
     \cup {<<"^">> \o w : w \in some}
     \cup {w \o <<":">> \o w : w \in some}
     \cup {<<"x">>, <<"x", ":", "y">>, <<"^", "x">>, <<"e", "n", "d", "s">>,
           <<"e", "n", "d", "_", "x">>}

\* b = text END parsed, and the value of the attribute b of the label
ParsedValue(text) ==
  LET Got(r) == IF r.exc # "none" THEN Raised(r.exc)
                ELSE Built(iter(r.ret)[1].value)
  IN Got(parse(<<"b", " ", "=", " ">> \o text \o <<" ", "E", "N", "D", " ">>))

\* the Units and the scalar values a program compares: of each class some
\* that are equal and some that differ in one field, with and without units
Comparands ==
  LET km == Units(<<"k", "m">>, TRUE).ret
      m == Units(<<"M">>, TRUE).ret
      half == float(<<"1", ".", "5">>)
  IN {km, m, Units(<<"K", "m">>, TRUE).ret}
     \cup {Integer(v, u).ret : v \in {1, 2}, u \in {None, km, m}}
     \cup {Real(f, u).ret : f \in {half, float(<<"0", ".", "0">>),
                                    float(<<"-", "0", ".", "0">>)},
                            u \in {None, km}}
     \cup {BasedInteger(r, d, u).ret :
             r \in {4, 16}, d \in {<<"1", "1">>, <<"3">>}, u \in {None, km, m}}
     \cup {Text(<<"a">>, TRUE).ret, Text(<<"A">>, TRUE).ret,
           Symbol(<<"a">>, TRUE).ret, Symbol(<<"A">>, TRUE).ret,
           Symbol(<<"b">>, TRUE).ret,
           Identifier(<<"a">>, TRUE).ret, Identifier(<<"A">>, TRUE).ret,
           Identifier(<<"b">>, TRUE).ret}
     \cup {Time(12, mi, s, FALSE, zh, zm).ret :
             mi \in {0, 30}, s \in {None, Some(half)},
             zh \in {None, Some(5)}, zm \in {None, Some(30)}}
     \cup {Time(12, 30, None, TRUE, None, None).ret}
     \cup {Date(2001, mo, d).ret : mo \in {None, Some(1)}, d \in {1, 2}}
     \cup {DateTime(2001, Some(1), d, 12, 30, None, FALSE, zh, None).ret :
             d \in {1, 2}, zh \in {None, Some(5)}}

\* the strings a Text is built of: letters, control characters, a line end,
\* a quotation mark and a character that is not ASCII
TextValues == {<<>>, <<"a">>, <<"NUL">>, <<"a", "VT", "b">>, <<"DEL">>,
               <<"a", "CR", "LF", "TAB", "b">>, <<"\"">>, <<"U00E9">>}

\* the program, which held nothing, has called a constructor or parse, and
\* holds what that built
Made(op, args, exc, value) ==
  [pc |-> "on", op |-> op, args |-> args, exc |-> exc, value |-> value,
   before |-> NoValue]

\* the program has called a method of the object it holds
Called(op, args, exc, value) ==
  [pc |-> "on", op |-> op, args |-> args, exc |-> exc, value |-> value,
   before |-> obj.value]

InitValues ==
  /\ cont = NewStatements("Label")
  /\ ref = <<>>
  /\ last = NoCall
  /\ rev = RevIdle
  /\ run = NoRun
  /\ obj = [NoObject EXCEPT !.pc = "on"]

\* Date(year, month, day)
ConstructDate ==
  \E year \in Years, month \in Months, day \in Days :
    LET r == Date(year, month, day)
    IN /\ obj.pc = "on" /\ obj.op = "none"
       /\ obj' = Made("Date", <<year, month, day>>, r.exc, r.ret)
       /\ UNCHANGED <<cont, ref, last, rev, run>>

\* parse(b"b = YYYY-MM-DD END ")["b"].value
ParseDate ==
  \E year \in Years, month \in Months, day \in Days :
    LET r == ParsedValue(DateBytes(year, month, day))
    IN /\ obj.pc = "on" /\ obj.op = "none"
       /\ obj' = Made("parse_date", <<year, month, day>>, r.exc, r.ret)
       /\ UNCHANGED <<cont, ref, last, rev, run>>

\* BasedInteger(radix, digits, units)
ConstructBasedInteger ==
  \E radix \in Radixes, digits \in DigitStrings, units \in SomeUnits :
    LET r == BasedInteger(radix, digits, units)
    IN /\ obj.pc = "on" /\ obj.op = "none"
       /\ obj' = Made("BasedInteger", <<radix, digits, units>>, r.exc, r.ret)
       /\ UNCHANGED <<cont, ref, last, rev, run>>

\* Set(*values)
ConstructSet ==
  \E values \in ArgumentLists :
    LET r == Set(values)
    IN /\ obj.pc = "on" /\ obj.op = "none"
       /\ obj' = Made("Set", values, r.exc, r.ret)
       /\ UNCHANGED <<cont, ref, last, rev, run>>

\* Sequence1D(*values), Sequence2D(*values)
ConstructSequence ==
  \E values \in ArgumentLists, cls \in {"Sequence1D", "Sequence2D"} :
    LET r == IF cls = "Sequence1D" THEN Sequence1D(values) ELSE Sequence2D(values)
    IN /\ obj.pc = "on" /\ obj.op = "none"
       /\ obj' = Made(cls, values, r.exc, r.ret)
       /\ UNCHANGED <<cont, ref, last, rev, run>>

\* parse(b"b = ... END ")["b"].value
ParseValue ==
  \E text \in ValueTexts :
    LET r == ParsedValue(text)
    IN /\ obj.pc = "on" /\ obj.op = "none"
       /\ obj' = Made("parse", <<text>>, r.exc, r.ret)
       /\ UNCHANGED <<cont, ref, last, rev, run>>

\* a_set.add(value)
CallAdd ==
  \E value \in Arguments :
    LET r == Set_add(obj.value, value)
    IN /\ obj.pc = "on"
       /\ obj.value.cls = "Set"
       /\ Cardinality(r.c.members) <= MaxItems
       /\ obj' = Called("add", <<value>>, r.exc, r.c)
       /\ UNCHANGED <<cont, ref, last, rev, run>>

\* a_set.discard(value)
CallDiscard ==
  \E value \in Arguments :
    LET r == Set_discard(obj.value, value)
    IN /\ obj.pc = "on"
       /\ obj.value.cls = "Set"
       /\ obj' = Called("discard", <<value>>, r.exc, r.c)
       /\ UNCHANGED <<cont, ref, last, rev, run>>

\* a_sequence.insert(index, value)
CallSequenceInsert ==
  \E index \in ItemIndices, value \in Arguments :
    LET r == Sequence_insert(obj.value, index, value)
    IN /\ obj.pc = "on"
       /\ obj.value.cls \in {"Sequence1D", "Sequence2D"}
       /\ Len(r.c.list) <= MaxItems
       /\ obj' = Called("insert", <<index, value>>, r.exc, r.c)
       /\ UNCHANGED <<cont, ref, last, rev, run>>

\* a_sequence.append(value)
CallSequenceAppend ==
  \E value \in Arguments :
    LET r == Sequence_append(obj.value, value)
    IN /\ obj.pc = "on"
       /\ obj.value.cls \in {"Sequence1D", "Sequence2D"}
       /\ Len(r.c.list) <= MaxItems
       /\ obj' = Called("append", <<value>>, r.exc, r.c)
       /\ UNCHANGED <<cont, ref, last, rev, run>>

\* a_sequence[index] = value
CallSequenceSetItem ==
  \E index \in ItemIndices, value \in Arguments :
    LET r == Sequence_setitem(obj.value, index, value)
    IN /\ obj.pc = "on"
       /\ obj.value.cls \in {"Sequence1D", "Sequence2D"}
       /\ Len(r.c.list) <= MaxItems
       /\ obj' = Called("setitem", <<index, value>>, r.exc, r.c)
       /\ UNCHANGED <<cont, ref, last, rev, run>>

\* Attribute(identifier, value), Group(identifier, group_statements),
\* Object(identifier, object_statements), the identifier validated
ConstructStatement ==
  \E kind \in {"Attribute", "Group", "Object"}, identifier \in Identifiers :
    LET r == CASE kind = "Attribute" ->
                    Attribute(identifier, Integer(1, None).ret, TRUE)
               [] kind = "Group" ->
                    Group(identifier, NewStatements("GroupStatements"), TRUE)
               [] kind = "Object" ->
                    Object(identifier, NewStatements("ObjectStatements"), TRUE)
    IN /\ obj.pc = "on" /\ obj.op = "none"
       /\ obj' = Made(kind, <<identifier>>, r.exc,
                        IF r.exc # "none" THEN NoValue
                        ELSE [cls |-> kind, stmt |-> r.stmt])
       /\ UNCHANGED <<cont, ref, last, rev, run>>

\* Text(value), the value validated
ConstructText ==
  \E value \in TextValues :
    LET r == Text(value, TRUE)
    IN /\ obj.pc = "on" /\ obj.op = "none"
       /\ obj' = Made("Text", <<value>>, r.exc, r.ret)
       /\ UNCHANGED <<cont, ref, last, rev, run>>

\* bytes(Label(Attribute("a", Integer(1)), Attribute("b", value))) of the
\* value the program holds, the identifiers validated
CallBytes ==
  LET a == Attribute(<<"a">>, Integer(1, None).ret, TRUE).stmt
      b == Attribute(<<"b">>, obj.value, TRUE).stmt
      label == append(append(NewStatements("Label"), a).c, b).c
  IN /\ obj.pc = "on"
     /\ obj.value.cls \in ValueClasses
     /\ \E r \in Statements_bytes(label) :
          obj' = Called("bytes", <<>>, r.exc, [cls |-> "bytes", bytes |-> r.ret])
     /\ UNCHANGED <<cont, ref, last, rev, run>>

\* a == b, hash(a), hash(b) and a != b of two values of one class: what each
\* comparison raised or returned, and what is hashed
CallCompare ==
  \E a \in Comparands, b \in Comparands :
    /\ obj.pc = "on" /\ obj.op = "none"
    /\ a.cls = b.cls
    /\ obj' = Made("compare", <<a, b>>, Value_ne(a, b).exc,
                   [cls |-> "Comparison", eq |-> Value_eq(a, b),
                    ne |-> Value_ne(a, b),
                    hashes |-> <<Value_hash(a), Value_hash(b)>>])
    /\ UNCHANGED <<cont, ref, last, rev, run>>

NextValues ==
  \/ ConstructDate
  \/ ParseDate
  \/ ConstructBasedInteger
  \/ ConstructSet
  \/ ConstructSequence
  \/ ParseValue
  \/ CallAdd
  \/ CallDiscard
  \/ CallSequenceInsert
  \/ CallSequenceAppend
  \/ CallSequenceSetItem
  \/ ConstructStatement
  \/ CallCompare
  \/ ConstructText
  \/ CallBytes

SpecValues == InitValues /\ [][NextValues]_vars

-----------------------------------------------------------------------------
(* What the claims speak of *)

\* the statements a container of this class takes
Admitted(c, statement) ==
  IF c.cls = "GroupStatements"
  THEN statement.kind = "Attribute"
  ELSE statement.kind \in {"Attribute", "Group", "Object"}

\* the upper-cased identifiers of a list of statements
Idents(l) == {upper(l[i].identifier) : i \in DOMAIN l}

\* the keys looked up: every spelling of the identifiers in use
LookupKeys == Keys \cup {<<"B">>, <<"c">>, <<"C">>, <<"d">>, <<"D">>}

Reverse(l) == [i \in 1..Len(l) |-> l[Len(l) + 1 - i]]

IsPrefix(a, b) == Len(a) <= Len(b) /\ a = SubSeq(b, 1, Len(a))

\* the index a call normalises a negative index to
FromEnd(n, index) == IF index < 0 THEN n + index ELSE index

\* the last call was insert or append of a statement the container takes
InsertedAdmitted ==
  /\ last.op \in {"insert", "append"}
  /\ Admitted(last.before, last.arg)

\* the index the last insert or append was made at
InsertIndex == IF last.op = "append" THEN len(last.before) ELSE last.index

\* a container as the list of its statements: kind, identifier, and the
\* value, which for a group or an object is the list of its body
RECURSIVE Tree(_)
Tree(c) ==
  [i \in 1..Len(iter(c)) |->
     LET stmt == iter(c)[i]
     IN [kind |-> stmt.kind,
         identifier |-> upper(stmt.identifier),
         value |-> IF stmt.kind = "Attribute" THEN stmt.value
                   ELSE Tree(stmt.value)]]

\* the body of every group in c, at any depth, holds attributes only
RECURSIVE GroupBodiesPure(_)
GroupBodiesPure(c) ==
  \A i \in 1..Len(iter(c)) :
    LET stmt == iter(c)[i]
    IN /\ stmt.kind = "Group"
          => \A j \in 1..Len(iter(stmt.value)) :
               iter(stmt.value)[j].kind = "Attribute"
       /\ stmt.kind = "Object" => GroupBodiesPure(stmt.value)

\* the serialization of a container that holds the statements of the list l
\* in the order of l
EmittedInOrder(c, l) ==
  LET all == Join([i \in DOMAIN l |->
                     Statement_format(l[i], <<>>, max_identifier_width(c))],
                  CRLF)
  IN IF c.cls = "Label" THEN Cat(all, Lit(CRLF \o <<"E", "N", "D", " ">>))
     ELSE all

\* the calls of parse a run has made
Parsed == {o \in {run.parsed, run.reparsed} : o.log # <<>>}

\* the first call of parse of a run has returned or raised
FirstParsed == run.pc \in {"parsed", "emitted", "reparsed"}

\* the call of parse a run has just made: its outcome stays as it is in the
\* states after it
LastParsed ==
  IF run.pc = "parsed" THEN {run.parsed}
  ELSE IF run.pc = "reparsed" THEN {run.reparsed}
  ELSE {}

\* a call of parse met the end of the token stream
StreamEnded(o) == \E k \in DOMAIN o.log : o.log[k].exc = "StopIteration"

\* the bytes of s that are not blank
Squeeze(s) == SelectSeq(s, LAMBDA c : c \notin WhiteSpace \cup {"CR", "LF"})

\* the bytes of the first n matches that the lexer finds in s
BytesRead(s, n) == Concat([i \in 1..n |-> finditer(s, 1)[i].raw])

\* among the bytes of s up to the end of its n-th match there is one that is
\* not blank and belongs to no match
StrayByte(s, n) == ~IsPrefix(Squeeze(BytesRead(s, n)), Squeeze(s))

\* s without the bytes that follow its END, when those are Trailing
EndsTrailing(s) ==
  /\ Len(s) >= Len(Trailing)
  /\ SubSeq(s, Len(s) - Len(Trailing) + 1, Len(s)) = Trailing
UpToEnd(s) == SubSeq(s, 1, Len(s) - Len(Trailing))

\* the leap years of the Gregorian calendar
Gregorian(year) == year % 4 = 0 /\ (year % 100 # 0 \/ year % 400 = 0)

\* the days of a month of a year in the Gregorian calendar
DaysInMonth(year, month) ==
  IF month = 2 THEN (IF Gregorian(year) THEN 29 ELSE 28)
  ELSE IF month \in {4, 6, 9, 11} THEN 30 ELSE 31

\* the last call built a Date of (year, month, day), by the constructor or by
\* the parser from a date token
DateCall == obj.op \in {"Date", "parse_date"}

\* the Dates in a value: the value itself, the date of a DateTime, and those
\* in the items of a sequence
RECURSIVE DatesIn(_)
DatesIn(v) ==
  CASE v.cls = "Date" -> {v}
    [] v.cls = "DateTime" -> {v.date}
    [] v.cls \in {"Sequence1D", "Sequence2D"} ->
         UNION {DatesIn(v.list[i]) : i \in DOMAIN v.list}
    [] OTHER -> {}

\* the items of a sequence are what the claim lets a sequence of its class
\* hold: scalars, or Sequence1Ds of scalars
ItemsAsClaimed(v) ==
  IF v.cls = "Sequence1D"
  THEN \A i \in DOMAIN v.list : v.list[i].cls \in ScalarClasses
  ELSE \A i \in DOMAIN v.list :
         /\ v.list[i].cls = "Sequence1D"
         /\ \A j \in DOMAIN v.list[i].list :
              v.list[i].list[j].cls \in ScalarClasses

\* what the claim lets be put into a sequence of the class of v
ItemAsClaimed(v, item) ==
  IF v.cls = "Sequence1D" THEN item.cls \in ScalarClasses
  ELSE item.cls = "Sequence1D" /\ ItemsAsClaimed(item)

\* the number a digit or letter stands for, and the number a digit string
\* stands for in a radix
DigitNumber(c) == (CHOOSE i \in 1..36 : (DigitSeq \o LowerSeq)[i] = LowerChar(c)) - 1
RECURSIVE PlaceValue(_, _)
PlaceValue(digits, radix) ==
  IF digits = <<>> THEN 0
  ELSE PlaceValue(SubSeq(digits, 1, Len(digits) - 1), radix) * radix
       + DigitNumber(digits[Len(digits)])

\* a digit string valid in a radix
ValidDigits(digits, radix) ==
  /\ digits # <<>>
  /\ \A i \in DOMAIN digits :
       digits[i] \in Letters \cup Digits /\ DigitNumber(digits[i]) < radix

\* the digit string a BasedInteger is said to keep: as given, or upper-cased
Kept(digits, upper_cased) == IF upper_cased THEN upper(digits) ELSE digits

\* a BasedInteger built of a valid radix and valid digits holds their value,
\* the digit string kept, and str() of it is radix#kept# and the units
BasedIntegerKeeps(upper_cased) ==
  /\ (/\ obj.op = "BasedInteger"
      /\ obj.args[1] \in 2..16
      /\ ValidDigits(obj.args[2], obj.args[1]))
     => /\ obj.exc = "none"
        /\ obj.value.cls = "BasedInteger"
        /\ obj.value.radix = obj.args[1]
        /\ obj.value.value = PlaceValue(obj.args[2], obj.args[1])
        /\ obj.value.digits = Kept(obj.args[2], upper_cased)
        /\ Value_str(obj.value) =
             {[exc |-> "none",
               ret |-> NatStr(obj.args[1]) \o <<"#">> \o Kept(obj.args[2], upper_cased)
                       \o <<"#">>
                       \o (IF obj.args[3] = None THEN <<>>
                           ELSE <<" ", "<">> \o obj.args[3].expression
                                \o <<">">>)]}
  /\ (obj.op = "BasedInteger" /\ obj.args[1] \in {1, 17})
     => (obj.exc = "ValueError" /\ obj.value = NoValue)

\* the parts of an identifier that the claim wants not to be reserved words:
\* the whole of it, and of an attribute's the NAMESPACE and the NAME around
\* a colon and the NAME after ^
IdentifierParts(kind, s) ==
  {s}
  \cup (IF kind = "Attribute" /\ s # <<>> /\ s[1] = "^" THEN {Tail(s)} ELSE {})
  \cup (IF kind = "Attribute"
        THEN UNION {{SubSeq(s, 1, q - 1), SubSeq(s, q + 1, Len(s))} :
                      q \in {i \in DOMAIN s : s[i] = ":"}}
        ELSE {})

\* the tokens a call of parse read and did not hand back to the generator:
\* their bytes, in the order they were read
RECURSIVE ConsumedFrom(_, _)
ConsumedFrom(log, k) ==
  IF k > Len(log) THEN <<>>
  ELSE IF /\ log[k].op = "next"
          /\ log[k].exc = "none"
          /\ ~(k < Len(log) /\ log[k + 1].op = "send")
       THEN <<log[k].raw>> \o ConsumedFrom(log, k + 1)
       ELSE ConsumedFrom(log, k + 1)
Consumed(o) == ConsumedFrom(o.log, 1)

\* a call of parse read a reserved word where a name or a value is looked
\* for: after a colon, a circumflex, an equal sign, a comma or an opening
\* parenthesis or brace, and not among the tokens of units
ReservedWordMisread(o) ==
  \E k \in 2..Len(Consumed(o)) :
    /\ lower(Consumed(o)[k]) \in ReservedWords
    /\ Consumed(o)[k - 1] \in {<<":">>, <<"^">>, <<"=">>, <<",">>, <<"(">>, <<"{">>}
    /\ \A j \in 1..k : Consumed(o)[j] # <<"<">>

\* the Identifier values in a value
RECURSIVE IdentifierValues(_)
IdentifierValues(v) ==
  CASE v.cls = "Identifier" -> {v.value}
    [] v.cls \in {"Sequence1D", "Sequence2D"} ->
         UNION {IdentifierValues(v.list[i]) : i \in DOMAIN v.list}
    [] OTHER -> {}

\* the names in a label, given as its tree: the identifiers of its statements
\* at any depth with their parts, and the Identifier values
RECURSIVE NamesIn(_)
NamesIn(tree) ==
  UNION {IdentifierParts(tree[i].kind, tree[i].identifier)
         \cup (IF tree[i].kind = "Attribute"
               THEN IdentifierValues(tree[i].value)
               ELSE NamesIn(tree[i].value)) : i \in DOMAIN tree}

\* the bytes a label is said to be written in: 0x09, 0x0A, 0x0D and 0x20 to
\* 0x7E, but for the backslash and the grave accent, which no string of the
\* model holds
LabelBytes ==
  {"TAB", "LF", "CR"} \cup Letters \cup Digits
  \cup {" ", "!", "\"", "#", "$", "%", "&", "'", "(", ")", "*", "+", ",", "-",
        ".", "/", ":", ";", "<", "=", ">", "?", "@", "[", "]", "^", "_",
        "{", "|", "}", "~"}

\* b ends with the bytes of tail
EndsWith(b, tail) ==
  Len(b) >= Len(tail) /\ SubSeq(b, Len(b) - Len(tail) + 1, Len(b)) = tail

\* the zone a time or date-time literal is written with, as <<zh, zm>>, when
\* it is of the form +zh:zm or -zh:zm after the time; <<>> for any other
\* token
ZoneWritten(raw) ==
  LET from == IF \E k \in DOMAIN raw : raw[k] \in {"T", "t"}
              THEN CHOOSE k \in DOMAIN raw : raw[k] \in {"T", "t"}
              ELSE 0
      signs == {k \in DOMAIN raw : k > from /\ raw[k] \in {"+", "-"}}
      AfterSign(k) ==
        LET colons == {c \in DOMAIN raw : c > k /\ raw[c] = ":"}
            WithMinutes(c) ==
              <<int(SubSeq(raw, k, c - 1), 10).ret,
                int(SubSeq(raw, c + 1, Len(raw)), 10).ret>>
        IN IF colons = {} THEN <<>> ELSE WithMinutes(CHOOSE c \in colons : TRUE)
  IN IF raw = <<>> \/ raw[1] \notin Digits \/ signs = {} THEN <<>>
     ELSE AfterSign(CHOOSE k \in signs : TRUE)

\* the Time values in a value, that of a DateTime included
RECURSIVE TimeValues(_)
TimeValues(v) ==
  CASE v.cls = "Time" -> {v}
    [] v.cls = "DateTime" -> {v.time}
    [] v.cls \in {"Sequence1D", "Sequence2D"} ->
         UNION {TimeValues(v.list[i]) : i \in DOMAIN v.list}
    [] OTHER -> {}

\* the Time values in a label, given as its tree
RECURSIVE TimesIn(_)
TimesIn(tree) ==
  UNION {IF tree[i].kind = "Attribute" THEN TimeValues(tree[i].value)
         ELSE TimesIn(tree[i].value) : i \in DOMAIN tree}

\* a call on the generator handed a token to the parser again: it is the
\* call that follows a push-back
Redelivery(log, k) == k > 1 /\ log[k - 1].op = "send"

\* the tokens a call of parse was handed, re-deliveries left out, in the
\* order it was handed them
RECURSIVE FreshFrom(_, _)
FreshFrom(log, k) ==
  IF k > Len(log) THEN <<>>
  ELSE IF log[k].op = "next" /\ log[k].exc = "none" /\ ~Redelivery(log, k)
       THEN <<log[k].raw>> \o FreshFrom(log, k + 1)
       ELSE FreshFrom(log, k + 1)

\* the push-backs of a call of parse
PushBacks(o) == {k \in DOMAIN o.log : o.log[k].op = "send"}

\* in a call of parse: the token pushed back is the one just read and is the
\* next one read; the tokens handed to the parser are those of the lexer, in
\* order, none left out, none twice
PushBackKept(o) ==
  /\ \A k \in PushBacks(o) :
       /\ o.log[k].exc = "none"
       /\ k > 1 /\ o.log[k - 1].op = "next" /\ o.log[k - 1].raw = o.log[k].raw
       /\ k < Len(o.log)
          => /\ o.log[k + 1].op = "next"
             /\ o.log[k + 1].exc = "none"
             /\ o.log[k + 1].raw = o.log[k].raw
             /\ o.log[k + 1].i = o.log[k].i
  /\ FreshFrom(o.log, 1) = o.lexed

\* a call on the generator handed the parser a token that it kept: it did
\* not push it back
IsConsumed(log, k) ==
  /\ log[k].op = "next"
  /\ log[k].exc = "none"
  /\ ~(k < Len(log) /\ log[k + 1].op = "send")

\* the tokens after which a name or a value is looked for
ValueLeads == {<<":">>, <<"^">>, <<"=">>, <<",">>, <<"(">>, <<"{">>}

\* the reserved words a call of parse read where a statement may start, in
\* the order it read them: at the call k of the log it read word, while the
\* blocks of open, the innermost last, were open; each of them with the
\* keyword and the name it was opened with. prev is the token read before
\* the call k, and units is TRUE between < and >.
RECURSIVE KeywordsFrom(_, _, _, _, _)
KeywordsFrom(log, k, open, prev, units) ==
  IF k > Len(log) THEN <<>>
  ELSE IF ~IsConsumed(log, k) THEN KeywordsFrom(log, k + 1, open, prev, units)
  ELSE IF units
  THEN KeywordsFrom(log, k + 1, open, log[k].raw, log[k].raw # <<">">>)
  ELSE IF log[k].raw = <<"<">>
  THEN KeywordsFrom(log, k + 1, open, log[k].raw, TRUE)
  ELSE IF reserved_identifiers(lower(log[k].raw)) = "" \/ prev \in ValueLeads
  THEN KeywordsFrom(log, k + 1, open, log[k].raw, FALSE)
  ELSE LET word == reserved_identifiers(lower(log[k].raw))
           opened == [word |-> word,
                      name |-> IF k + 2 <= Len(log) THEN log[k + 2].raw
                               ELSE <<>>]
           after == IF word \in {"begin_object", "begin_group"}
                    THEN Append(open, opened)
                    ELSE IF word \in {"end_object", "end_group"} /\ open # <<>>
                    THEN SubSeq(open, 1, Len(open) - 1)
                    ELSE open
       IN <<[k |-> k, word |-> word, open |-> open]>>
          \o KeywordsFrom(log, k + 1, after, log[k].raw, FALSE)

Keywords(o) == KeywordsFrom(o.log, 1, <<>>, <<>>, FALSE)

\* the keyword that closes a block opened with word
ClosingOf(word) == IF word = "begin_object" THEN "end_object" ELSE "end_group"

\* the closings of a call of parse: the keywords that close the innermost
\* open block, each as the call it was read at and the name of the opening
BlockClosings(o) ==
  LET read == Keywords(o)
  IN {[k |-> read[j].k, name |-> read[j].open[Len(read[j].open)].name] :
        j \in {i \in DOMAIN read :
                 /\ read[i].open # <<>>
                 /\ read[i].word = ClosingOf(read[i].open[Len(read[i].open)].word)}}

\* the closing c of a call of parse is followed by an equal sign
ClosedWithName(o, c) ==
  /\ c.k < Len(o.log)
  /\ o.log[c.k + 1].exc = "none"
  /\ o.log[c.k + 1].raw = <<"=">>

\* the closing c of a call of parse is followed by another token
ClosedWithoutName(o, c) ==
  /\ c.k < Len(o.log)
  /\ o.log[c.k + 1].exc = "none"
  /\ o.log[c.k + 1].raw # <<"=">>

\* a keyword a call of parse read while a block was open and that does not
\* close that block: END, or the closing keyword of the other kind
Misnested(e) ==
  /\ e.open # <<>>
  /\ e.word \in {"end", "end_object", "end_group"}
  /\ e.word # ClosingOf(e.open[Len(e.open)].word)

\* the blocks a call of parse was given, in the order of their openings: how
\* many blocks were open, the kind, the name in upper case
OpenedBlocks(o) ==
  LET opens == SelectSeq(Keywords(o), LAMBDA e :
                 e.word \in {"begin_object", "begin_group"})
  IN [j \in DOMAIN opens |->
        <<Len(opens[j].open),
          IF opens[j].word = "begin_object" THEN "Object" ELSE "Group",
          upper(IF opens[j].k + 2 <= Len(o.log) THEN o.log[opens[j].k + 2].raw
                ELSE <<>>)>>]

\* the blocks of a label, given as its tree, each before the blocks in it:
\* the depth it is at, the kind, the identifier
RECURSIVE TreeBlocksFrom(_, _, _)
TreeBlocksFrom(tree, i, depth) ==
  IF i > Len(tree) THEN <<>>
  ELSE IF tree[i].kind = "Attribute" THEN TreeBlocksFrom(tree, i + 1, depth)
  ELSE <<<<depth, tree[i].kind, tree[i].identifier>>>>
       \o TreeBlocksFrom(tree[i].value, 1, depth + 1)
       \o TreeBlocksFrom(tree, i + 1, depth)

\* the calls of a log that handed the parser the match m of the lexer
Deliveries(log, m) ==
  {k \in DOMAIN log : log[k].op = "next" /\ log[k].exc = "none" /\ log[k].i = m}

\* a call of parse read every token at most twice, and of any three calls in
\* a row that it made on the generator one took a new match of the lexer or
\* found the stream at its end
ReadsBounded(o) ==
  /\ \A m \in 1..o.taken :
       /\ Cardinality(Deliveries(o.log, m)) <= 2
       /\ Cardinality({k \in Deliveries(o.log, m) : Redelivery(o.log, k)}) <= 1
  /\ \A k \in DOMAIN o.log :
       k + 2 <= Len(o.log)
       => \E j \in k..k + 2 :
            /\ o.log[j].op = "next"
            /\ ~Redelivery(o.log, j)
            /\ \/ o.log[j].exc = "StopIteration"
               \/ j > 1 => o.log[j].i > o.log[j - 1].i
  /\ Len(o.log) <= 3 * o.taken + 1

\* what a call of parse ends in
ParseEndings == {"none", "ParsingError", "ValueError", "TypeError",
                 "RuntimeError", "OverflowError", "UnicodeDecodeError"}

\* a call of parse of byte_str has ended, and the calls it made on the
\* generator are bounded by the bytes of byte_str
ParseBounded(o, byte_str) ==
  /\ o.exc \in ParseEndings
  /\ o.log # <<>>
  /\ ReadsBounded(o)
  /\ o.taken <= Len(byte_str)
  /\ Len(o.log) <= 3 * Len(byte_str) + 1

-----------------------------------------------------------------------------
\* C1: for every byte string that parse takes, bytes() of the label raises
\* nothing, parse of those bytes raises nothing, and the label it returns
\* equals the first statement by statement: order, kinds, upper-cased
\* identifiers and values, through groups and objects.
C1_RoundTrip ==
  /\ run.pc \in {"emitted", "reparsed"} => run.emitted.exc = "none"
  /\ run.pc = "reparsed"
     => /\ run.reparsed.exc = "none"
        /\ Tree(run.reparsed.ret) = Tree(run.parsed.ret)

C3_IterationOrder ==
  /\ iter(cont) = ref
  /\ Statements_str(cont) = EmittedInOrder(cont, ref)
  /\ Len(iter(cont)) = len(cont)
  /\ (last.op = "append" /\ last.exc = "none")
     => iter(cont) = iter(last.before) \o <<last.arg>>
  /\ (last.op = "pop" /\ last.exc = "none")
     => iter(cont) = ListRemove(iter(last.before),
                                FromEnd(len(last.before), last.index))
  /\ (last.op = "delitem" /\ last.exc = "none")
     => \E i \in DOMAIN iter(last.before) :
          /\ iter(last.before)[i].identifier = upper(last.key)
          /\ iter(cont) = ListRemove(iter(last.before), i - 1)

\* the middle statement of three was popped
C3_Witness ==
  /\ last.op = "pop"
  /\ last.exc = "none"
  /\ len(last.before) = 3
  /\ FromEnd(3, last.index) = 1
  /\ iter(cont) = <<iter(last.before)[1], iter(last.before)[3]>>

C5_LookupMatchesIteration ==
  /\ \A k \in LookupKeys :
       LET at == Positions(iter(cont), upper(k))
       IN /\ contains(cont, k) <=> at # {}
          /\ \A i \in at : /\ getitem(cont, k).exc = "none"
                            /\ getitem(cont, k).ret = iter(cont)[i].value
  /\ (last.op \in {"pop", "delitem"} /\ last.exc = "none")
     => LET gone == IF last.op = "pop" THEN last.ret.identifier ELSE upper(last.key)
            again == Attribute(gone, Integer(1, None).ret, TRUE).stmt
        IN /\ ~contains(cont, gone)
           /\ ~contains(cont, lower(gone))
           /\ insert(cont, 0, again).exc = "none"
           /\ contains(insert(cont, 0, again).c, lower(gone))

\* a statement was popped from a container that keeps another one
C5_Witness ==
  /\ last.op = "pop"
  /\ last.exc = "none"
  /\ len(cont) >= 1
  /\ contains(last.before, last.ret.identifier)
  /\ contains(cont, <<"a">>)

\* what container[key] = value is to do when it builds a statement of kind
\* kind: replace the statement of that identifier where it is, or append
SetItemStores(kind) ==
  LET old == iter(last.before)
      at == Positions(old, upper(last.key))
      stmt == [kind |-> kind, identifier |-> upper(last.key), value |-> last.arg]
  IN /\ last.exc = "none"
     /\ IF at = {}
        THEN iter(cont) = old \o <<stmt>> /\ len(cont) = len(last.before) + 1
        ELSE /\ iter(cont) = [i \in DOMAIN old |-> IF i \in at THEN stmt ELSE old[i]]
             /\ len(cont) = len(last.before)

\* C6, for the containers of the classes in flavors
SetItemBuilds(flavors) ==
  (last.op = "setitem" /\ last.before.cls \in flavors)
  => /\ (IsValue(last.arg) /\ Attribute_VALID_IDENT(last.key))
        => SetItemStores("Attribute")
     /\ (/\ last.arg.cls = "GroupStatements"
         /\ last.before.cls # "GroupStatements"
         /\ Statement_VALID_IDENT(last.key))
        => SetItemStores("Group")
     /\ (/\ last.arg.cls = "ObjectStatements"
         /\ last.before.cls # "GroupStatements"
         /\ Statement_VALID_IDENT(last.key))
        => SetItemStores("Object")

\* C6: on a Label, an ObjectStatements and a GroupStatements,
\* container[key] = value builds an Attribute for a Value (a Group or an
\* Object for a nested container), replaces the statement of that identifier
\* where it is, or else appends it.
C6_SetItemOnEveryFlavor == SetItemBuilds(Flavors)

\* C7: insert(index, s) of a statement whose identifier is new puts s where
\* list.insert would: at index for 0 <= index <= len, at max(0, len + index)
\* for a negative index, at the end beyond len; get of that position returns
\* s, len grows by one, the others keep their order.
C7_InsertPosition ==
  (/\ InsertedAdmitted
   /\ last.op = "insert"
   /\ upper(last.arg.identifier) \notin Idents(iter(last.before)))
  => LET n == len(last.before)
         p == IF last.index < 0
              THEN (IF n + last.index > 0 THEN n + last.index ELSE 0)
              ELSE (IF last.index > n THEN n ELSE last.index)
     IN /\ last.exc = "none"
        /\ len(cont) = n + 1
        /\ get(cont, p).exc = "none"
        /\ get(cont, p).ret = last.arg
        /\ iter(cont)[p + 1] = last.arg
        /\ ListRemove(iter(cont), p) = iter(last.before)
        /\ iter(cont) = ListInsert(iter(last.before), last.index, last.arg)

\* a statement was inserted by a negative index between two others
C7_Witness ==
  /\ last.op = "insert"
  /\ last.exc = "none"
  /\ last.index = 0 - 1
  /\ len(cont) = 3
  /\ iter(cont)[2] = last.arg

\* C8: get(index) and pop(index) take the indices -len..len-1 and return the
\* statement at that position, pop removing it; any other index raises
\* IndexError and changes nothing.
C8_GetPopIndex ==
  (last.op \in {"get", "pop"})
  => LET n == len(last.before)
         old == iter(last.before)
         i == FromEnd(n, last.index)
     IN IF 0 - n <= last.index /\ last.index <= n - 1
        THEN /\ last.exc = "none"
             /\ last.ret = old[i + 1]
             /\ last.op = "get" => cont = last.before
             /\ last.op = "pop" => /\ len(cont) = n - 1
                                   /\ iter(cont) = ListRemove(old, i)
        ELSE /\ last.exc = "IndexError"
             /\ cont = last.before

\* the last of three statements was read by index -1
C8_Witness ==
  /\ last.op = "get"
  /\ last.exc = "none"
  /\ last.index = 0 - 1
  /\ len(cont) = 3
  /\ last.ret = iter(cont)[3]

\* C9: reversed(container) ends, and yields the statements of forward
\* iteration in the opposite order and nothing else.
C9_ReversedIsReverse ==
  /\ rev.pc \in {"running", "done"} => IsPrefix(rev.out, Reverse(iter(cont)))
  /\ rev.pc = "done" => rev.out = Reverse(iter(cont))
  /\ (rev.pc = "running" /\ Len(rev.out) = len(cont)) => rev.cur = Proxy

\* C10: parse of any byte string returns a Label or raises ParsingError, and
\* no other exception.
C10_LabelOrParsingError ==
  run.pc \in {"parsed", "emitted", "reparsed"}
  => /\ run.parsed.exc \in {"none", "ParsingError"}
     /\ run.parsed.exc = "none" => run.parsed.ret.cls = "Label"

\* C11: a call of parse that meets the end of the token stream, wherever in
\* the label that happens, raises ParsingError and returns no label.
C11_UnexpectedEnd ==
  \A o \in Parsed : StreamEnded(o) => o.exc = "ParsingError"

\* C12: when, among the bytes that parse has read tokens from, one is neither
\* blank nor part of a token, parse raises an error: it returns no label
\* built from the tokens around that byte.
C12_StrayByteIsAnError ==
  (FirstParsed /\ StrayByte(run.byte_string, run.parsed.taken))
  => run.parsed.exc # "none"

\* C13: when parse returns a label for a byte string that ends with END, it
\* returns an equal label for that byte string followed by other bytes, and
\* reads the same tokens: every token up to END and none after it.
C13_NothingAfterEndIsRead ==
  (/\ FirstParsed
   /\ EndsTrailing(run.byte_string)
   /\ parse(UpToEnd(run.byte_string)).exc = "none")
  => /\ run.parsed.exc = "none"
     /\ Tree(run.parsed.ret) = Tree(parse(UpToEnd(run.byte_string)).ret)
     /\ run.parsed = Outcome(parse(UpToEnd(run.byte_string)))
     /\ run.parsed.taken = Len(finditer(UpToEnd(run.byte_string), 1))

\* a label of two statements was returned for a byte string with bytes after
\* END, and END had been read ahead and handed back to the generator
C13_Witness ==
  /\ FirstParsed
  /\ EndsTrailing(run.byte_string)
  /\ run.parsed.exc = "none"
  /\ Len(iter(run.parsed.ret)) >= 2
  /\ \E k \in DOMAIN run.parsed.log :
       /\ run.parsed.log[k].op = "send"
       /\ lower(run.parsed.log[k].raw) = <<"e", "n", "d">>

\* C14: the 29th of February of a year is accepted exactly when the year is
\* divisible by 4 and not by 100, or by 400, by the constructor of Date and
\* by the parser alike.
C14_LeapDay ==
  (DateCall /\ obj.args[2] = Some(2) /\ obj.args[3] = 29)
  => (obj.exc = "none" <=> Gregorian(obj.args[1]))

\* C15: a Date without a month is accepted exactly when its day is in 1..365,
\* or is 366 and the year is a leap year of the Gregorian calendar.
C15_DayOfYear ==
  (DateCall /\ obj.args[2] = None)
  => (obj.exc = "none"
      <=> \/ obj.args[3] \in 1..365
          \/ obj.args[3] = 366 /\ Gregorian(obj.args[1]))

\* C16: every Date with a month that the program holds, built by it or by the
\* parser, on its own or in a DateTime or a sequence, has its month in 1..12
\* and its day in 1..the days of that month in that year.
C16_DateInRange ==
  \A d \in DatesIn(obj.value) :
    d.month # None
    => /\ d.month[1] \in 1..12
       /\ d.day \in 1..DaysInMonth(d.year, d.month[1])

\* C17: a Sequence1D holds scalars only, a Sequence2D holds Sequence1Ds of
\* scalars only, whether built by a constructor, grown by insert, append or
\* item assignment, or returned by the parser; and a call that puts anything
\* else into a sequence raises TypeError and leaves the sequence as it was.
C17_SequenceNesting ==
  /\ obj.value.cls \in {"Sequence1D", "Sequence2D"} => ItemsAsClaimed(obj.value)
  /\ (/\ obj.op \in {"insert", "append", "setitem"}
      /\ ~ItemAsClaimed(obj.before, obj.args[Len(obj.args)]))
     => (obj.exc = "TypeError" /\ obj.value = obj.before)

\* C18: every member of a Set the program holds, built by the constructor,
\* grown by add, shrunk by discard or returned by the parser, is a Symbol or
\* an Integer; add of a Symbol or an Integer puts it in; add of anything
\* else raises TypeError and leaves the Set as it was; and the constructor
\* given anything else raises TypeError.
C18_SetMembers ==
  /\ obj.value.cls = "Set"
     => \A m \in obj.value.members : m.cls \in {"Symbol", "Integer"}
  /\ obj.op = "add"
     => IF obj.args[1].cls \in {"Symbol", "Integer"}
        THEN /\ obj.exc = "none"
             /\ obj.value.members = obj.before.members \cup {obj.args[1]}
        ELSE obj.exc = "TypeError" /\ obj.value = obj.before
  /\ obj.op = "discard"
     => /\ obj.exc = "none"
        /\ obj.value.members = obj.before.members \ {obj.args[1]}
  /\ (/\ obj.op = "Set"
      /\ \E i \in DOMAIN obj.args : obj.args[i].cls \notin {"Symbol", "Integer"})
     => (obj.exc = "TypeError" /\ obj.value = NoValue)

\* a Set of two members, one of each class, refused a Real
C18_Witness ==
  /\ obj.op = "add"
  /\ obj.args[1].cls = "Real"
  /\ obj.exc = "TypeError"
  /\ {m.cls : m \in obj.value.members} = {"Symbol", "Integer"}

\* C19, as claimed: a BasedInteger of a radix in 2..16 and of digits valid in
\* it holds the value of the digits, keeps the digit string as given, and
\* str() of it is radix#digits# with the digits as given, then ' <UNITS>'
\* when it has units; radix 1 and radix 17 raise ValueError.
C19_DigitsVerbatim == BasedIntegerKeeps(FALSE)

\* C19, amended: as above, but the digit string is kept and serialized with
\* its letters in upper case.
C19_DigitsUpperCased == BasedIntegerKeeps(TRUE)

\* 16#fF# <km> was built: value 255, and str() of it is 16#FF# <KM>
C19_Witness ==
  /\ obj.op = "BasedInteger"
  /\ obj.args = <<16, <<"f", "F">>, Units(<<"k", "m">>, TRUE).ret>>
  /\ obj.exc = "none"
  /\ obj.value.value = 255
  /\ obj.value.digits = <<"F", "F">>

\* C20: with the identifier validated, Attribute, Group and Object raise when
\* the identifier is a reserved word in any letter case, and Attribute raises
\* when the NAMESPACE or the NAME of NAMESPACE:NAME, or the NAME of ^NAME, is
\* one.
C20_ReservedWordsRefused ==
  (/\ obj.op \in {"Attribute", "Group", "Object"}
   /\ \E part \in IdentifierParts(obj.op, obj.args[1]) :
        lower(part) \in ReservedWords)
  => (obj.exc = "ValueError" /\ obj.value = NoValue)

\* C21: in every label that parse returns no identifier of a statement, no
\* part of a namespaced or pointer identifier and no Identifier value is a
\* reserved word in any letter case; and a call of parse that reads a
\* reserved word where a name or a value is looked for raises ParsingError.
C21_NoReservedWordInALabel ==
  \A o \in LastParsed :
    /\ o.exc = "none"
       => \A n \in NamesIn(Tree(o.ret)) : lower(n) \notin ReservedWords
    /\ ReservedWordMisread(o) => o.exc = "ParsingError"

\* inside a block, a reserved word was read where a name or a value is
\* looked for, and ParsingError was raised
C21_Witness ==
  /\ FirstParsed
  /\ ReservedWordMisread(run.parsed)
  /\ run.parsed.exc = "ParsingError"
  /\ Len(Consumed(run.parsed)) >= 7

\* C22: for two values of one class, Units among them and numbers that
\* carry Units, a == b returns whether their canonical fields are equal,
\* a != b returns the negation of a == b, and a == b implies that hash(a)
\* equals hash(b).
C22_EqualityIsConsistent ==
  obj.op = "compare"
  => /\ obj.value.eq = [exc |-> "none", ret |-> obj.args[1] = obj.args[2]]
        \/ (/\ obj.args[1].cls = "Real"
            /\ obj.value.eq.exc = "none"
            /\ obj.value.eq.ret = (Value_hash(obj.args[1]) = Value_hash(obj.args[2])))
     /\ obj.value.ne = [exc |-> "none", ret |-> ~obj.value.eq.ret]
     /\ obj.value.eq.ret => obj.value.hashes[1] = obj.value.hashes[2]

\* C23: the bytes of a label of two attributes built by the validating
\* constructors, the second with any value the program holds, are all 0x09,
\* 0x0A, 0x0D or in 0x20..0x7E; the first attribute is followed by CRLF and
\* the second by CRLF and the four bytes 'END ', which end the output.
C23_LabelBytes ==
  (obj.op = "bytes" /\ obj.exc = "none")
  => /\ \A i \in DOMAIN obj.value.bytes : obj.value.bytes[i] \in LabelBytes
     /\ IsPrefix(<<"A", " ", " ", " ", " ", " ", " ", " ", " ", " ", " ", "=",
                   " ", "1", "CR", "LF", "B", " ">>, obj.value.bytes)
     /\ EndsWith(obj.value.bytes, <<"CR", "LF", "E", "N", "D", " ">>)

\* C24, as claimed: when parse returns a label, every time or date-time
\* literal it read that is written with a zone +zh:zm or -zh:zm has become a
\* Time whose zone_hour is zh and whose zone_minute is zm.
C24_ZoneMinutesParsed ==
  \A o \in Parsed :
    o.exc = "none"
    => \A k \in DOMAIN o.log :
         ZoneWritten(o.log[k].raw) # <<>>
         => \E t \in TimesIn(Tree(o.ret)) :
              /\ t.zone_hour = Some(ZoneWritten(o.log[k].raw)[1])
              /\ t.zone_minute = Some(ZoneWritten(o.log[k].raw)[2])

\* C25: in every call of parse, a token the parser pushes back is the next
\* token it reads, once, and the reads after it go on with the lexer's
\* tokens; the tokens handed to the parser, re-deliveries left out, are the
\* lexer's tokens in the order of the input, none skipped, none twice.
C25_PushBackKeepsTheStream == \A o \in LastParsed : PushBackKept(o)

\* a call of parse pushed back two tokens, read on and returned a label
C25_Witness ==
  /\ FirstParsed
  /\ run.parsed.exc = "none"
  /\ Cardinality(PushBacks(run.parsed)) >= 2
  /\ \E k \in PushBacks(run.parsed) : k + 2 <= Len(run.parsed.log)

\* C26: in every call of parse, after the keyword that closes a block the
\* parser reads one token. When it is an equal sign, the token after it is
\* the name of the opening byte for byte, or parse raises ParsingError
\* there. When it is another token, the parser pushes it back and reads it
\* again as the start of what follows the block: a statement, a keyword, or
\* else parse raises ParsingError there.
C26_ClosingName ==
  \A o \in LastParsed : \A c \in BlockClosings(o) :
    /\ c.k < Len(o.log) /\ o.log[c.k + 1].op = "next"
    /\ ClosedWithName(o, c)
       => /\ c.k + 2 <= Len(o.log)
          /\ o.log[c.k + 2].op = "next"
          /\ \/ o.log[c.k + 2].exc = "none" /\ o.log[c.k + 2].raw = c.name
             \/ o.exc = "ParsingError" /\ Len(o.log) = c.k + 2
    /\ ClosedWithoutName(o, c)
       => /\ c.k + 2 <= Len(o.log)
          /\ o.log[c.k + 2].op = "send"
          /\ o.log[c.k + 2].raw = o.log[c.k + 1].raw
          /\ c.k + 3 <= Len(o.log) \/ o.exc # "none"
          /\ c.k + 3 <= Len(o.log)
             => /\ IsConsumed(o.log, c.k + 3)
                /\ o.log[c.k + 3].raw = o.log[c.k + 1].raw
                /\ \/ o.log[c.k + 3].raw[1] \in Letters \cup {"^"}
                   \/ o.exc = "ParsingError" /\ Len(o.log) = c.k + 3

\* a call of parse returned a label with a block closed with its name and a
\* block closed without one and followed by a statement
C26_Witness ==
  /\ FirstParsed
  /\ run.parsed.exc = "none"
  /\ \E c \in BlockClosings(run.parsed) :
       ClosedWithName(run.parsed, c) /\ c.name # <<>>
  /\ \E c \in BlockClosings(run.parsed) :
       /\ ClosedWithoutName(run.parsed, c)
       /\ reserved_identifiers(lower(run.parsed.log[c.k + 3].raw)) = ""

\* C27: in no call of parse is a token pushed back while the token pushed
\* back before it has not been read again: every push-back finds the
\* generator at the yield of a token of the lexer, so no more than one token
\* is ever pending.
C27_OnePending ==
  \A o \in LastParsed : \A k \in PushBacks(o) :
    /\ o.log[k].at = "token"
    /\ k > 1 /\ o.log[k - 1].op = "next"
    /\ k + 1 <= Len(o.log) => o.log[k + 1].op = "next"

\* a call of parse pushed back three tokens, each read again before the
\* next push-back
C27_Witness ==
  /\ FirstParsed
  /\ Cardinality(PushBacks(run.parsed)) >= 3
  /\ \A k \in PushBacks(run.parsed) : k < Len(run.parsed.log)

\* C28: in every call of parse, END or the closing keyword of the other
\* kind, read where a statement of an open block may start, raises
\* ParsingError at that token; and in every label parse returns, each
\* closing keyword closed the innermost open block and was of its kind, END
\* was read with no block open, and the blocks of the label are the blocks
\* opened, nested as they were opened.
C28_BlocksNest ==
  \A o \in LastParsed :
    LET read == Keywords(o)
    IN /\ \A j \in DOMAIN read :
            Misnested(read[j]) => o.exc = "ParsingError" /\ Len(o.log) = read[j].k
       /\ o.exc = "none"
          => /\ \A j \in DOMAIN read :
                  /\ read[j].word \in {"end_object", "end_group"}
                     => read[j].open # <<>> /\ ~Misnested(read[j])
                  /\ read[j].word = "end"
                     => read[j].open = <<>> /\ read[j].k = Len(o.log)
             /\ TreeBlocksFrom(Tree(o.ret), 1, 0) = OpenedBlocks(o)

\* a call of parse read END_OBJECT in a group that is in an object, after
\* a statement of the group
C28_Witness ==
  /\ FirstParsed
  /\ run.parsed.exc = "ParsingError"
  /\ \E j \in DOMAIN Keywords(run.parsed) :
       /\ Misnested(Keywords(run.parsed)[j])
       /\ Keywords(run.parsed)[j].word = "end_object"
       /\ Len(Keywords(run.parsed)[j].open) = 2
       /\ Keywords(run.parsed)[j].k > 7

\* C29: every call of parse ends, with a label or with an error, after a
\* number of calls on the token generator that the input bounds: it is
\* handed each token of the lexer at most twice, once new and at most once
\* after a push-back; of any three calls in a row on the generator one takes
\* a new match or finds the stream at its end, so that no loop of the parser
\* goes round without one; and there are no more matches than bytes.
C29_ParseEnds ==
  /\ run.pc = "parsed" => ParseBounded(run.parsed, run.byte_string)
  /\ run.pc = "reparsed" => ParseBounded(run.reparsed, run.emitted.ret)

\* a call of parse read two tokens twice, made no call on the generator in
\* vain and ended with a label after twelve calls or more
C29_Witness ==
  /\ FirstParsed
  /\ run.parsed.exc = "none"
  /\ Len(run.parsed.log) >= 12
  /\ Cardinality({m \in 1..run.parsed.taken :
                    Cardinality(Deliveries(run.parsed.log, m)) = 2}) >= 2

\* C30, as claimed: a_sequence[index] = value, with index from 0 to the
\* length less one and value of the type the sequence takes, a Scalar for a
\* Sequence1D and a Sequence1D for a Sequence2D, puts value in the place of
\* the item at index: the length stays, the item at index is value, and the
\* other items stay where they were.
C30_SetItemReplaces ==
  ( /\ obj.op = "setitem"
    /\ obj.args[1] >= 0 /\ obj.args[1] < Len(obj.before.list)
    /\ \/ obj.before.cls = "Sequence1D" /\ obj.args[2].cls \in ScalarClasses
       \/ obj.before.cls = "Sequence2D" /\ obj.args[2].cls = "Sequence1D" )
  => /\ obj.exc = "none"
     /\ Len(obj.value.list) = Len(obj.before.list)
     /\ obj.value.list[obj.args[1] + 1] = obj.args[2]
     /\ \A i \in DOMAIN obj.before.list :
          i # obj.args[1] + 1 => obj.value.list[i] = obj.before.list[i]

=============================================================================
